---- MODULE Spec2Model ----
(***************************************************************************)
(* Model of the md-to-notion synchronisation engine:                       *)
(*   - retryWithBackoff             (src/src/sync-to-notion.ts 51-85)      *)
(*   - collectCurrentFiles          (src/src/sync-to-notion.ts 183-316)    *)
(*   - syncToNotion                 (src/src/sync-to-notion.ts 328-753)    *)
(*   - readMarkdownFiles            (src/src/read-md.ts 39-130)            *)
(* Strings (page keys, page ids, paths) are sequences of one-character     *)
(* strings, so that concatenation, length, split and replace are computed. *)
(***************************************************************************)
EXTENDS Integers, Sequences, FiniteSets, TLC

---------------------------------------------------------------------------
(* Program constants *)
MAX_RETRY_ATTEMPTS == 3
INITIAL_RETRY_DELAY == 1000

(* Bounds of the model *)
MaxAttemptsBound == 4
NPages == 6
MaxDepthBound == 2
MaxFiles == 2
MaxRemote == 3
MaxBlocks == 4
MaxPageSize == 3
MaxLines == 2
MaxEntries == 3
MaxOver == 1
MaxNesting == 4
MaxExisting == 2
MaxMergeCalls == 2
MaxItems == 3

---------------------------------------------------------------------------
(* State *)
VARIABLES
  maxAttempts,    \* parameter of retryWithBackoff
  initialDelay,   \* parameter of retryWithBackoff
  attempt,        \* loop counter of retryWithBackoff
  lastError,      \* last error caught, NoError before the first failure
  retryPc,        \* "loop" | "sleeping" | "returned" | "thrown"
  retryOutcome,   \* value returned or error thrown by retryWithBackoff
  fnCalls,        \* outcomes of the invocations of fn, in order
  sleeps          \* durations passed to sleep, in order

retryVars == <<maxAttempts, initialDelay, attempt, lastError, retryPc,
               retryOutcome, fnCalls, sleeps>>

VARIABLES
  parentOf,       \* remote store: page -> parent page (0 for the root)
  titleOf,        \* remote store: page -> title
  listSize,       \* remote store: number of results in one response of children.list
  maxDepth,       \* options.maxDepth
  parallelLimit,  \* options.parallelLimit
  requestDelay,   \* options.requestDelay
  linkMap,        \* Map<string, NotionPageLink>, the PageIndex
  processedIds,   \* Set of page ids already claimed by a task
  pendingTasks,   \* Set<Promise<void>> in insertion order
  task,           \* page -> activation record of processPageParallel
  waiters,        \* page -> reactions registered on the task's promise
  microtasks,     \* the microtask queue
  running,        \* task whose synchronous code is executing, 0 if none
  mainPc,         \* position of collectCurrentFiles itself
  mainAwait,      \* promises the Promise.all / allSettled of main still waits for
  retrieved,      \* pages for which pages.retrieve and children.list were issued
  fetches,        \* page -> number of times the answers of its two calls arrived
  titleErrors     \* pages whose retrieved response held no non-empty title

crawlVars == <<parentOf, titleOf, listSize, maxDepth, parallelLimit, requestDelay, processedIds,
               pendingTasks, task, waiters, microtasks, running, mainPc,
               mainAwait, retrieved, fetches, titleErrors>>

VARIABLES
  fs,             \* local directory: the set of markdown files, each the sequence
                  \* of names from the root (<<a, b>> is ./a/b.md)
  fileContent,    \* file -> its text
  useTracker,     \* a SyncStateManager is in use
  durable,        \* SyncStateManager: the state file, path -> fingerprint
  trackerState,   \* SyncStateManager: the in-memory state, path -> fingerprint
  trackerPending, \* SyncStateManager: paths with a pending record
  dir,            \* the Folder readMarkdownFiles returned
  rootPageId,     \* pageId argument of syncToNotion, as the user wrote it
  deleteNonExistentFiles, \* argument of syncToNotion
  remotePages,    \* remote store: the pages, the root first
  nextId,         \* remote store: number of the next page it creates
  syncPc,         \* position of the run
  stack,          \* activation records of syncFolder, innermost last
  pages,          \* array of {pageId, file} filled by syncFolder
  folderPageIds,  \* Set filled by syncFolder
  fileIdx,        \* i of the file loop
  sortedEntries,  \* sortedEntries of the archival pass
  archiveIdx,     \* position in sortedEntries
  archivedPages,  \* Set of keys archived in this run
  calls,          \* remote calls issued in this run, in order
  getContentCalls,\* files whose getContent was called in this run, in order
  resolved,       \* local items resolved to a page in this run, in order
  saved,          \* paths passed to saveFileState in this run, in order
  run,            \* number of the run
  localChange,    \* a local file was edited between the last run and this one
  failedAt        \* position in calls of the call that failed, 0 if none has

syncVars == <<fs, fileContent, useTracker, durable, trackerState, trackerPending,
              dir, rootPageId, deleteNonExistentFiles, remotePages, nextId, syncPc,
              stack, pages, folderPageIds, fileIdx, sortedEntries, archiveIdx,
              archivedPages, calls, getContentCalls, resolved, saved, run,
              localChange, failedAt>>

VARIABLES
  blBlocks,       \* getAllBlockPages: the children of the block in remote order
  blPageSize,     \* number of results the remote store gives per response
  blPc,           \* position of getAllBlockPages
  cursor,         \* cursor of the discovery loop, 0 for undefined
  allBlocks,      \* blocks gathered by the discovery loop
  pageRequests,   \* cursors of the result pages, 0 for the first
  finalBlocks     \* the list getAllBlockPages returned

blockVars == <<blBlocks, blPageSize, blPc, cursor, allBlocks, pageRequests, finalBlocks>>

VARIABLES
  rnChildren,     \* --renew: the blocks below the root page in remote order
  rnPageSize,     \* number of results the remote store gives per response
  rnPc,           \* position of main from line 107 on
  rnResults,      \* childrenResponse.results of archiveChildPages
  rnIdx,          \* position of the loop of archiveChildPages in rnResults
  rnIndex         \* ids of the root's child pages in the index built afterwards

renewVars == <<rnChildren, rnPageSize, rnPc, rnResults, rnIdx, rnIndex>>

VARIABLES
  igReadable,     \* whether .notionignore can be read
  igContent,      \* the text of .notionignore
  globstarSelf,   \* whether the minimatch in use lets "d/**" match "d" itself
  rdEntries,      \* the directory: the paths of its entries, as sequences of names
  rdBroken,       \* entries for which statSync throws
  rdFilter,       \* the filter: the include and exclude texts of the command line
  ignorePatterns, \* what getIgnorePatterns returned
  rdResult,       \* what readMarkdownFiles returned
  rdPc,           \* position of readMarkdownFiles
  ignoreCalls     \* the calls of shouldIgnorePath made, each with its answer

readVars == <<igReadable, igContent, globstarSelf, rdEntries, rdBroken, rdFilter,
              ignorePatterns, rdResult, rdPc, ignoreCalls>>

VARIABLES
  gbParent,       \* getExistingBlocks: block -> the block it is a child of; 1 is the page
  gbOption,       \* options.maxDepth of syncToNotion
  gbCalled,       \* the blocks getExistingBlocks has been called for
  gbPc            \* position of updateBlocks at line 583

fetchVars == <<gbParent, gbOption, gbCalled, gbPc>>

VARIABLES
  upCaller,       \* who called appendBlocksInChunks: "direct" or "updateBlocks"
  upExisting,     \* updateBlocks: ids of existingBlocks, in the page's order
  upPage,         \* remote store: the blocks of the page, in order
  upNextId,       \* remote store: the id the next block created gets
  upPc,           \* position of updateBlocks
  upMergeCalls,   \* number of callback calls mergeBlocks has made
  upToDelete,     \* blockIdSetToDelete, in insertion order
  upDelIdx,       \* position of the loop of line 620 in upToDelete
  upStack,        \* the calls of appendBlocksInChunks under way, innermost last
  upRequests,     \* the remote calls made, in order
  upLast          \* the call of appendBlocksInChunks from outside made last

updateVars == <<upCaller, upExisting, upPage, upNextId, upPc, upMergeCalls, upToDelete,
                upDelIdx, upStack, upRequests, upLast>>

VARIABLES
  parItems,       \* processInParallel: what each item is and its worker does
  parLimit,       \* limit
  parDelay,       \* requestDelay
  parI,           \* i of the loop of line 99, from 1
  parState,       \* per item: none, sleeping, working, done or failed
  executing,      \* the set executing, as indices of items
  parResults,     \* the array results
  parPc,          \* loop, race (line 116), all (line 120), resolved, rejected
  parReturned     \* the array returned

parallelVars == <<parItems, parLimit, parDelay, parI, parState, executing, parResults,
                  parPc, parReturned>>

moreVars == <<fetchVars, updateVars, parallelVars>>

auxVars == <<blockVars, renewVars, readVars, moreVars>>

vars == <<retryVars, crawlVars, syncVars, linkMap, auxVars>>

---------------------------------------------------------------------------
(* Generic helpers *)
Range(s) == {s[i] : i \in 1..Len(s)}

Min(a, b) == IF a < b THEN a ELSE b

RECURSIVE Pow2(_)
Pow2(n) == IF n <= 0 THEN 1 ELSE 2 * Pow2(n - 1)

(* A finite set of integers as the ascending sequence of its elements *)
RECURSIVE SortedSeq(_)
SortedSeq(S) ==
  IF S = {} THEN <<>>
  ELSE LET m == CHOOSE x \in S : \A y \in S : x <= y
       IN <<m>> \o SortedSeq(S \ {m})

(* Strings are sequences of one-character strings *)
Dot == <<".">>
Slash == <<"/">>
Dash == <<"-">>
Digit(n) == <<"0", "1", "2", "3", "4", "5", "6", "7", "8", "9">>[n + 1]
Letter(n) == <<"a", "b", "c", "d", "e", "f", "g", "h", "i", "j">>[n]

(* Map<string, NotionPageLink>: a JavaScript Map keeps insertion order, and  *)
(* set() on a present key replaces the value in place.                       *)
MapHas(m, k) == \E i \in 1..Len(m) : m[i].key = k
MapIndex(m, k) == CHOOSE i \in 1..Len(m) : m[i].key = k
MapGet(m, k) == m[MapIndex(m, k)].value
MapSet(m, k, v) ==
  IF MapHas(m, k)
    THEN [m EXCEPT ![MapIndex(m, k)].value = v]
    ELSE Append(m, [key |-> k, value |-> v])

commonPageKey(parentId, title) == parentId \o Slash \o title

---------------------------------------------------------------------------
(* retryWithBackoff *)
NoError == [kind |-> "none"]
UnknownError == [kind |-> "error", hasStatus |-> FALSE, status |-> 0, unknown |-> TRUE]
FnError(hasStatus, status) ==
  [kind |-> "error", hasStatus |-> hasStatus, status |-> status, unknown |-> FALSE]
FnValue == [kind |-> "value"]

(* What one invocation of fn may produce: a value, or an error with or     *)
(* without a status. *)
FnResults ==
  {FnValue, FnError(TRUE, 429), FnError(TRUE, 503), FnError(TRUE, 500),
   FnError(FALSE, 0)}

InitialDelays == {1, 3, INITIAL_RETRY_DELAY}

IsRateLimitAlways(error) == error.kind = "error"
isRateLimit(error) ==
  /\ error.kind = "error"
  /\ error.hasStatus
  /\ (error.status = 429 \/ error.status = 503)

BackoffDelayLinear(initial, att) == initial * att
BackoffDelay(initial, att) == initial * Pow2(att - 1)

IsLastAttempt(att, max) == att = max

RetryInit ==
  /\ maxAttempts \in 0..MaxAttemptsBound
  /\ initialDelay \in InitialDelays
  /\ attempt = 1
  /\ lastError = NoError
  /\ retryPc = "loop"
  /\ retryOutcome = NoError
  /\ fnCalls = <<>>
  /\ sleeps = <<>>

(* One pass of the loop body: fn is invoked; a value is returned, an error *)
(* is rethrown or a sleep is started. *)
RetryInvoke ==
  /\ retryPc = "loop"
  /\ attempt <= maxAttempts
  /\ \E r \in FnResults :
       /\ fnCalls' = Append(fnCalls, r)
       /\ IF r.kind = "value"
            THEN /\ retryPc' = "returned"
                 /\ retryOutcome' = r
                 /\ UNCHANGED <<lastError, sleeps>>
            ELSE /\ lastError' = r
                 /\ IF IsLastAttempt(attempt, maxAttempts) \/ ~isRateLimit(r)
                      THEN /\ retryPc' = "thrown"
                           /\ retryOutcome' = r
                           /\ UNCHANGED sleeps
                      ELSE /\ retryPc' = "sleeping"
                           /\ sleeps' = Append(sleeps, BackoffDelay(initialDelay, attempt))
                           /\ UNCHANGED retryOutcome
  /\ UNCHANGED <<crawlVars, syncVars, linkMap, auxVars>>
  /\ UNCHANGED <<maxAttempts, initialDelay, attempt>>

(* The sleep ends and the loop increments attempt. *)
RetryWake ==
  /\ retryPc = "sleeping"
  /\ retryPc' = "loop"
  /\ attempt' = attempt + 1
  /\ UNCHANGED <<crawlVars, syncVars, linkMap, auxVars>>
  /\ UNCHANGED <<maxAttempts, initialDelay, lastError, retryOutcome, fnCalls, sleeps>>

(* The loop condition fails: the statement after the loop throws. *)
RetryLoopExit ==
  /\ retryPc = "loop"
  /\ attempt > maxAttempts
  /\ retryPc' = "thrown"
  /\ retryOutcome' = IF lastError = NoError THEN UnknownError ELSE lastError
  /\ UNCHANGED <<crawlVars, syncVars, linkMap, auxVars>>
  /\ UNCHANGED <<maxAttempts, initialDelay, attempt, lastError, fnCalls, sleeps>>

RetryNext == RetryInvoke \/ RetryWake \/ RetryLoopExit

---------------------------------------------------------------------------
(* collectCurrentFiles *)
(* The remote store holds a tree of pages 1..NPages, page 1 being the root.  *)
(* Every call of processPageParallel is a task named by the page it is       *)
(* called for. The JavaScript event loop is modelled: synchronous code runs  *)
(* to its next await (variable running), promise reactions are jobs of the   *)
(* FIFO microtask queue, and network answers and timers are macrotasks,      *)
(* which run only when the microtask queue is empty.                         *)
Pages == 1..NPages
Root == 1
Infinity == 1000
DEFAULT_REQUEST_DELAY == 50

(* Page trees: page i > 2 hangs below page i-1 or the root, which gives the  *)
(* chain of depth NPages-1, the star and the trees between them. *)
Trees ==
  {[i \in Pages |-> IF i = 1 THEN 0 ELSE IF i = 2 THEN 1
                     ELSE IF c[i] = 1 THEN 1 ELSE i - 1] :
     c \in [3..NPages -> {0, 1}]}

(* Remote answers *)
TitleOf(p) == titleOf[p]
ApiId(p) == <<"p">> \o Dash \o <<Digit(p)>>
(* The child pages among childrenResponse.results (lines 251-255): the one  *)
(* call of line 222 gets the first results of the list only *)
ChildPageIds(p) ==
  LET all == SortedSeq({q \in Pages : parentOf[q] = p})
  IN SubSeq(all, 1, Min(listSize, Len(all)))

RECURSIVE TreeDepth(_)
TreeDepth(p) == IF parentOf[p] = 0 THEN 0 ELSE 1 + TreeDepth(parentOf[p])

newNotionPageLink(response) == [id |-> response.id]

NoTask == [pc |-> "none", parentTitle |-> <<>>, depth |-> 0, childIdx |-> 0, raceNo |-> 0]

Settled(t) == t.pc \in {"resolved", "rejected"}

Waiter(type, p, n) == [type |-> type, task |-> p, n |-> n]
Job(w, src, ok) == [type |-> w.type, task |-> w.task, n |-> w.n, src |-> src, ok |-> ok]
Cont(type, p, ok) == [type |-> type, task |-> p, n |-> 0, src |-> 0, ok |-> ok]

(* The promise of task q settles: one job per registered reaction, in        *)
(* registration order. *)
SettleJobs(q, ok) == [i \in 1..Len(waiters[q]) |-> Job(waiters[q][i], q, ok)]

(* Reaction w is registered on every promise of the sequence proms (then()   *)
(* on a settled promise queues its job at once). tk is the task table at     *)
(* that moment. *)
RegisteredWaiters(proms, w, tk) ==
  [q \in Pages |->
     IF q \in Range(proms) /\ ~Settled(tk[q])
       THEN LET Keep(x) == ~(x.type = w.type /\ x.task = w.task)
            IN Append(SelectSeq(waiters[q], Keep), w)
       ELSE waiters[q]]
RegisteredJobs(proms, w, tk) ==
  LET IsSettled(q) == Settled(tk[q])
      done == SelectSeq(proms, IsSettled)
  IN [i \in 1..Len(done) |-> Job(w, done[i], tk[done[i]].pc = "resolved")]

DepthExceededOffByOne(depth, max) == depth > max + 1
DepthExceeded(depth, max) == depth > max

(* processPageParallel up to its first await: the activation record *)
Activation(pageId, parentTitle, depth) ==
  [pc |-> IF pageId \in processedIds \/ DepthExceeded(depth, maxDepth)
            THEN "resolved" ELSE "fetching",
   parentTitle |-> parentTitle, depth |-> depth, childIdx |-> 1, raceNo |-> 0]

NewParentTitle(p) ==
  IF p = Root THEN Dot ELSE task[p].parentTitle \o Slash \o TitleOf(p)

(* parallelLimit: 1, 2 and 3, the least limit under which two running tasks  *)
(* can both find a free slot *)
ParallelLimits == {1, 2, 3}

(* Titles: all different, or the first child of the root titled as the root, *)
(* or pages 2 and 3 with one title *)
UniqueTitles == [p \in Pages |-> <<Letter(p)>>]
TitleAssignments ==
  {UniqueTitles, [UniqueTitles EXCEPT ![2] = UniqueTitles[1]],
   [UniqueTitles EXCEPT ![3] = UniqueTitles[2]]}
(* Results per response: NPages is a list that always fits one response *)
ListSizes == {1, 2, NPages}

CrawlParams ==
  /\ parentOf \in Trees
  /\ titleOf = UniqueTitles
  /\ listSize = NPages
  /\ maxDepth \in (0..MaxDepthBound) \cup {Infinity}
  /\ parallelLimit \in ParallelLimits
  /\ requestDelay \in {0, DEFAULT_REQUEST_DELAY}

(* The remote store with equal titles and lists longer than one response *)
StoreParams ==
  /\ parentOf \in Trees
  /\ titleOf \in TitleAssignments
  /\ listSize \in ListSizes
  /\ maxDepth = Infinity
  /\ parallelLimit = 3
  /\ requestDelay \in {0, DEFAULT_REQUEST_DELAY}

CrawlStart ==
  /\ linkMap = <<>>
  /\ processedIds = {}
  /\ pendingTasks = <<>>
  /\ task = [p \in Pages |-> NoTask]
  /\ waiters = [p \in Pages |-> <<>>]
  /\ microtasks = <<>>
  /\ running = 0
  /\ mainPc = "init"
  /\ mainAwait = {}
  /\ retrieved = {}
  /\ fetches = [p \in Pages |-> 0]
  /\ titleErrors = {}

CrawlInit == CrawlParams /\ CrawlStart

(* collectCurrentFiles, lines 300-307: the root task is called, added to     *)
(* pendingTasks, and Promise.all is taken over the set as it is then. *)
CollectStart ==
  /\ mainPc = "init"
  /\ LET act == Activation(Root, Dot, 0)
         tk == [task EXCEPT ![Root] = act]
         fin == Waiter("finally", Root, 0)
         all == Waiter("all", 0, 0)
         proms == <<Root>>
         w1 == [waiters EXCEPT ![Root] = IF Settled(act) THEN <<>> ELSE <<fin, all>>]
     IN /\ task' = tk
        /\ processedIds' = IF Settled(act) THEN processedIds ELSE processedIds \cup {Root}
        /\ retrieved' = IF Settled(act) THEN retrieved ELSE retrieved \cup {Root}
        /\ pendingTasks' = proms
        /\ waiters' = w1
        /\ microtasks' = IF Settled(act)
                           THEN <<Job(fin, Root, TRUE), Job(all, Root, TRUE)>>
                           ELSE <<>>
        /\ mainAwait' = Range(proms)
        /\ mainPc' = "awaitAll"
  /\ UNCHANGED <<fetches, titleErrors>>
  /\ UNCHANGED <<retryVars, syncVars, auxVars>>
  /\ UNCHANGED <<parentOf, titleOf, listSize, maxDepth, parallelLimit,
                 requestDelay, linkMap, running>>

(* Macrotask: both remote calls of task p have answered (ok), or one of them *)
(* has failed after its retries (~ok). Lines 216-258 and 287-297. *)
FetchDone(p, ok) ==
  /\ running = 0
  /\ microtasks = <<>>
  /\ task[p].pc = "fetching"
  /\ IF ok
       THEN /\ linkMap' = MapSet(linkMap, commonPageKey(task[p].parentTitle, TitleOf(p)),
                                 newNotionPageLink([id |-> ApiId(p)]))
            /\ task' = [task EXCEPT ![p].pc = "for"]
            /\ running' = p
            /\ UNCHANGED <<microtasks, waiters>>
       ELSE /\ task' = [task EXCEPT ![p].pc = "rejected"]
            /\ microtasks' = SettleJobs(p, FALSE)
            /\ waiters' = [waiters EXCEPT ![p] = <<>>]
            /\ UNCHANGED <<linkMap, running>>
  /\ fetches' = [fetches EXCEPT ![p] = @ + 1]
  /\ UNCHANGED titleErrors
  /\ UNCHANGED <<retryVars, syncVars, auxVars>>
  /\ UNCHANGED <<parentOf, titleOf, listSize, maxDepth, parallelLimit,
                 requestDelay, processedIds,
                 pendingTasks, mainPc, mainAwait, retrieved>>

(* getPageTitle, lines 133-154: the response holds a title property with a   *)
(* non-empty text, or getPageTitle throws *)
TitleErrorRetried == "fetching"
TitleError == "rejected"

(* Macrotask: both remote calls of task p have answered and the page has no  *)
(* non-empty title: getPageTitle throws at line 239, before linkMap.set, and *)
(* the catch of lines 287-297 throws the error again. *)
FetchUntitled(p) ==
  /\ running = 0
  /\ microtasks = <<>>
  /\ task[p].pc = "fetching"
  /\ task' = [task EXCEPT ![p].pc = TitleError]
  /\ microtasks' = IF Settled(task'[p]) THEN SettleJobs(p, FALSE) ELSE microtasks
  /\ waiters' = IF Settled(task'[p]) THEN [waiters EXCEPT ![p] = <<>>] ELSE waiters
  /\ fetches' = [fetches EXCEPT ![p] = @ + 1]
  /\ titleErrors' = titleErrors \cup {p}
  /\ UNCHANGED <<retryVars, syncVars, auxVars>>
  /\ UNCHANGED <<parentOf, titleOf, listSize, maxDepth, parallelLimit,
                 requestDelay, linkMap, processedIds,
                 pendingTasks, running, mainPc, mainAwait, retrieved>>

SlotTaken(size, limit) == size >= limit

(* Synchronous code of task p at the head of the child loop (lines 261-269): *)
(* the loop ends and the task resolves, or it awaits a free slot, or it      *)
(* sleeps, or it goes on to start the child. *)
LoopStep(p) ==
  /\ running = p
  /\ task[p].pc \in {"for", "while"}
  /\ IF task[p].pc = "for" /\ task[p].childIdx > Len(ChildPageIds(p))
       THEN /\ task' = [task EXCEPT ![p].pc = "resolved"]
            /\ microtasks' = microtasks \o SettleJobs(p, TRUE)
            /\ waiters' = [waiters EXCEPT ![p] = <<>>]
            /\ running' = 0
       ELSE IF SlotTaken(Len(pendingTasks), parallelLimit)
         THEN LET n == task[p].raceNo + 1
                  w == Waiter("race", p, n)
              IN /\ task' = [task EXCEPT ![p].pc = "racing", ![p].raceNo = n]
                 /\ waiters' = RegisteredWaiters(pendingTasks, w, task)
                 /\ microtasks' = microtasks \o RegisteredJobs(pendingTasks, w, task)
                 /\ running' = 0
         ELSE IF requestDelay > 0
           THEN /\ task' = [task EXCEPT ![p].pc = "sleeping"]
                /\ running' = 0
                /\ UNCHANGED <<microtasks, waiters>>
           ELSE /\ task' = [task EXCEPT ![p].pc = "spawn"]
                /\ UNCHANGED <<microtasks, waiters, running>>
  /\ UNCHANGED <<fetches, titleErrors>>
  /\ UNCHANGED <<retryVars, syncVars, auxVars>>
  /\ UNCHANGED <<parentOf, titleOf, listSize, maxDepth, parallelLimit,
                 requestDelay, linkMap, processedIds,
                 pendingTasks, mainPc, mainAwait, retrieved>>

(* Macrotask: the pacing timer of task p fires (line 268). *)
TimerFire(p) ==
  /\ running = 0
  /\ microtasks = <<>>
  /\ task[p].pc = "sleeping"
  /\ task' = [task EXCEPT ![p].pc = "spawn"]
  /\ running' = p
  /\ UNCHANGED <<fetches, titleErrors>>
  /\ UNCHANGED <<retryVars, syncVars, auxVars>>
  /\ UNCHANGED <<parentOf, titleOf, listSize, maxDepth, parallelLimit,
                 requestDelay, linkMap, processedIds,
                 pendingTasks, waiters, microtasks, mainPc, mainAwait, retrieved>>

(* Lines 271-277: the child task is called (it runs to its first await),     *)
(* added to pendingTasks and given its finally() reaction. *)
Spawn(p) ==
  /\ running = p
  /\ task[p].pc = "spawn"
  /\ LET c == ChildPageIds(p)[task[p].childIdx]
         act == Activation(c, NewParentTitle(p), task[p].depth + 1)
         fin == Waiter("finally", c, 0)
     IN /\ task' = [task EXCEPT ![c] = act, ![p].pc = "for",
                                ![p].childIdx = task[p].childIdx + 1]
        /\ processedIds' = IF Settled(act) THEN processedIds ELSE processedIds \cup {c}
        /\ retrieved' = IF Settled(act) THEN retrieved ELSE retrieved \cup {c}
        /\ pendingTasks' = Append(pendingTasks, c)
        /\ waiters' = [waiters EXCEPT ![c] = IF Settled(act) THEN <<>> ELSE <<fin>>]
        /\ microtasks' = IF Settled(act)
                           THEN Append(microtasks, Job(fin, c, TRUE))
                           ELSE microtasks
  /\ UNCHANGED <<fetches, titleErrors>>
  /\ UNCHANGED <<retryVars, syncVars, auxVars>>
  /\ UNCHANGED <<parentOf, titleOf, listSize, maxDepth, parallelLimit,
                 requestDelay, linkMap, running,
                 mainPc, mainAwait>>

(* The head job of the microtask queue runs. *)
RunMicrotask ==
  /\ running = 0
  /\ microtasks # <<>>
  /\ LET j == Head(microtasks)
         rest == Tail(microtasks)
     IN CASE j.type = "finally" ->
               \* line 277 / 304: pendingTasks.delete(promise)
               /\ pendingTasks' = SelectSeq(pendingTasks, LAMBDA q : q # j.src)
               /\ microtasks' = rest
               /\ UNCHANGED <<task, waiters, running, mainPc, mainAwait>>
          [] j.type = "race" ->
               \* the Promise.race of line 264 settles with its first promise
               /\ IF task[j.task].pc = "racing" /\ task[j.task].raceNo = j.n
                    THEN /\ task' = [task EXCEPT ![j.task].pc = "raceDone"]
                         /\ microtasks' = Append(rest, Cont("cont", j.task, j.ok))
                    ELSE /\ microtasks' = rest
                         /\ UNCHANGED task
               /\ UNCHANGED <<pendingTasks, waiters, running, mainPc, mainAwait>>
          [] j.type = "cont" ->
               \* the await of line 264 resumes, or throws into lines 287-297
               /\ IF j.ok
                    THEN /\ task' = [task EXCEPT ![j.task].pc = "while"]
                         /\ running' = j.task
                         /\ microtasks' = rest
                         /\ UNCHANGED waiters
                    ELSE /\ task' = [task EXCEPT ![j.task].pc = "rejected"]
                         /\ microtasks' = rest \o SettleJobs(j.task, FALSE)
                         /\ waiters' = [waiters EXCEPT ![j.task] = <<>>]
                         /\ UNCHANGED running
               /\ UNCHANGED <<pendingTasks, mainPc, mainAwait>>
          [] j.type = "all" ->
               \* Promise.all of line 307
               /\ IF mainPc # "awaitAll"
                    THEN /\ microtasks' = rest
                         /\ UNCHANGED <<mainPc, mainAwait>>
                    ELSE IF ~j.ok
                      THEN /\ mainPc' = "allSettledNext"
                           /\ microtasks' = Append(rest, Cont("mainCatch", 0, FALSE))
                           /\ UNCHANGED mainAwait
                      ELSE /\ mainAwait' = mainAwait \ {j.src}
                           /\ IF mainAwait' = {}
                                THEN /\ mainPc' = "returnNext"
                                     /\ microtasks' = Append(rest, Cont("mainReturn", 0, TRUE))
                                ELSE /\ microtasks' = rest
                                     /\ UNCHANGED mainPc
               /\ UNCHANGED <<task, pendingTasks, waiters, running>>
          [] j.type = "mainReturn" ->
               \* lines 314-315
               /\ mainPc' = "returned"
               /\ microtasks' = rest
               /\ UNCHANGED <<task, pendingTasks, waiters, running, mainAwait>>
          [] j.type = "mainCatch" ->
               \* line 310: Promise.allSettled over pendingTasks as it is now
               /\ LET w == Waiter("allSettled", 0, 0)
                      open == {q \in Range(pendingTasks) : ~Settled(task[q])}
                  IN /\ mainAwait' = open
                     /\ waiters' = RegisteredWaiters(pendingTasks, w, task)
                     /\ IF open = {}
                          THEN /\ mainPc' = "throwNext"
                               /\ microtasks' = Append(rest, Cont("mainThrow", 0, FALSE))
                          ELSE /\ mainPc' = "awaitAllSettled"
                               /\ microtasks' = rest
               /\ UNCHANGED <<task, pendingTasks, running>>
          [] j.type = "allSettled" ->
               /\ mainAwait' = mainAwait \ {j.src}
               /\ IF mainPc = "awaitAllSettled" /\ mainAwait' = {}
                    THEN /\ mainPc' = "throwNext"
                         /\ microtasks' = Append(rest, Cont("mainThrow", 0, FALSE))
                    ELSE /\ microtasks' = rest
                         /\ UNCHANGED mainPc
               /\ UNCHANGED <<task, pendingTasks, waiters, running>>
          [] j.type = "mainThrow" ->
               \* line 311
               /\ mainPc' = "rejected"
               /\ microtasks' = rest
               /\ UNCHANGED <<task, pendingTasks, waiters, running, mainAwait>>
  /\ UNCHANGED <<fetches, titleErrors>>
  /\ UNCHANGED <<retryVars, syncVars, auxVars>>
  /\ UNCHANGED <<parentOf, titleOf, listSize, maxDepth, parallelLimit,
                 requestDelay, linkMap, processedIds,
                 retrieved>>

CrawlNext ==
  \/ CollectStart
  \/ \E p \in Pages, ok \in BOOLEAN : FetchDone(p, ok)
  \/ \E p \in Pages : FetchUntitled(p)
  \/ \E p \in Pages : LoopStep(p)
  \/ \E p \in Pages : TimerFire(p)
  \/ \E p \in Pages : Spawn(p)
  \/ RunMicrotask

---------------------------------------------------------------------------
(* readMarkdownFiles, the SyncStateManager and syncToNotion *)

A == <<"a">>
B == <<"b">>
DOCS == <<"d", "o", "c", "s">>
MD == <<".", "m", "d">>

(* Names in the order readdirSync lists them *)
LocalNames == <<A, B>>
NameRank(n) == CHOOSE i \in 1..Len(LocalNames) : LocalNames[i] = n

(* The markdown files a local directory may hold *)
LocalPaths == {<<A>>, <<B>>, <<A, A>>, <<A, B>>}
LocalTrees == {t \in SUBSET LocalPaths : t # {} /\ Cardinality(t) <= MaxFiles}

(* The pages the remote root may hold before the first run, by title path *)
RemotePaths == <<(<<A>>), <<A, B>>, (<<DOCS>>), <<DOCS, A>>, <<DOCS, B>>>>
PrefixClosed(S) ==
  \A i \in S : Len(RemotePaths[i]) > 1 =>
    \E j \in S : RemotePaths[j] = SubSeq(RemotePaths[i], 1, Len(RemotePaths[i]) - 1)
RemoteTrees ==
  {S \in SUBSET (1..Len(RemotePaths)) : PrefixClosed(S) /\ Cardinality(S) <= MaxRemote}

RootTitle == <<"r">>
RootApiId == ApiId(1)

StripDashes(id) == SelectSeq(id, LAMBDA c : c # "-")
(* The remote store takes a page id with or without dashes *)
SameId(x, y) == StripDashes(x) = StripDashes(y)

NewId(n) == <<"n">> \o Dash \o <<Digit(n \div 10), Digit(n % 10)>>

RECURSIVE JoinWith(_, _)
JoinWith(parts, sep) ==
  IF parts = <<>> THEN <<>>
  ELSE IF Len(parts) = 1 THEN parts[1]
  ELSE parts[1] \o sep \o JoinWith(Tail(parts), sep)

RECURSIVE Split(_, _)
Split(str, sep) ==
  IF \A i \in 1..Len(str) : str[i] # sep THEN <<str>>
  ELSE LET k == CHOOSE i \in 1..Len(str) :
                  str[i] = sep /\ \A j \in 1..(i - 1) : str[j] # sep
       IN <<SubSeq(str, 1, k - 1)>> \o Split(SubSeq(str, k + 1, Len(str)), sep)

(* path.join of two segments *)
PathJoin(x, y) == IF x = <<>> THEN y ELSE IF y = <<>> THEN x ELSE x \o Slash \o y

(* path.relative(dirPath, entryPath) of a markdown file *)
PathFromRoot(f) == JoinWith(f, Slash) \o MD
(* path.basename(entry.name, ".md") *)
Basename(f) == f[Len(f)]

(* ---- remote store ---- *)
RemotePage(id, parent, title, content) ==
  [id |-> id, parent |-> parent, title |-> title, archived |-> FALSE, content |-> content]

InitialRemote(S) ==
  LET idx == SortedSeq(S)
      ParentPos(i) ==
        IF Len(RemotePaths[idx[i]]) = 1 THEN 1
        ELSE 1 + CHOOSE j \in 1..Len(idx) :
               RemotePaths[idx[j]] =
                 SubSeq(RemotePaths[idx[i]], 1, Len(RemotePaths[idx[i]]) - 1)
  IN <<RemotePage(RootApiId, 0, RootTitle, "old")>> \o
     [i \in 1..Len(idx) |->
        RemotePage(ApiId(idx[i] + 1), ParentPos(i),
                   RemotePaths[idx[i]][Len(RemotePaths[idx[i]])], "old")]

PageIdx(rp, id) == CHOOSE i \in 1..Len(rp) : SameId(rp[i].id, id)

RECURSIVE Visible(_, _)
Visible(rp, i) == ~rp[i].archived /\ (rp[i].parent = 0 \/ Visible(rp, rp[i].parent))

RECURSIVE RemoteDepth(_, _)
RemoteDepth(rp, i) == IF rp[i].parent = 0 THEN 0 ELSE 1 + RemoteDepth(rp, rp[i].parent)

(* parentTitle / newParentTitle of processPageParallel for page i *)
RECURSIVE RemoteParentTitle(_, _)
RemoteParentTitle(rp, i) ==
  IF rp[i].parent = 0 \/ rp[rp[i].parent].parent = 0 THEN Dot
  ELSE RemoteParentTitle(rp, rp[i].parent) \o Slash \o rp[rp[i].parent].title

(* The PageIndex collectCurrentFiles builds from the remote store when the   *)
(* pages down to depth limit have been registered, parents before children.  *)
RECURSIVE BuildIndex(_, _, _)
BuildIndex(rp, limit, n) ==
  IF n = 0 THEN <<>>
  ELSE LET m == BuildIndex(rp, limit, n - 1)
       IN IF Visible(rp, n) /\ RemoteDepth(rp, n) <= limit
            THEN MapSet(m, commonPageKey(RemoteParentTitle(rp, n), rp[n].title),
                        newNotionPageLink(rp[n]))
            ELSE m

(* ---- SyncStateManager ---- *)
(* sync-state.ts is not among the sources; its operations follow section    *)
(* 4.1 of the specification (changed / commit / flushAll), with a storage   *)
(* that does not fail. *)
Fingerprint(content) == <<"md5", content>>

HasFileChanged(state, path, content) ==
  path \notin DOMAIN state \/ state[path] # Fingerprint(content)

(* the state after hasFileChanged was called for every file of the set fset *)
StateAfterRead(state, fset) ==
  LET changed == {f \in fset : HasFileChanged(state, PathFromRoot(f), fileContent[f])}
      keys == {PathFromRoot(f) : f \in changed}
      FileOf(k) == CHOOSE f \in changed : PathFromRoot(f) = k
  IN [k \in DOMAIN state \cup keys |->
        IF k \in keys THEN Fingerprint(fileContent[FileOf(k)]) ELSE state[k]]
PendingAfterRead(state, fset) ==
  {PathFromRoot(f) : f \in {g \in fset : HasFileChanged(state, PathFromRoot(g), fileContent[g])}}

(* saveFileState(path): the pending record of that path is written *)
DurableAfterSave(path) ==
  IF path \in trackerPending
    THEN [k \in DOMAIN durable \cup {path} |->
            IF k = path THEN trackerState[path] ELSE durable[k]]
    ELSE durable
(* savePendingChanges(): every pending record is written *)
DurableAfterSaveAll ==
  [k \in DOMAIN durable \cup trackerPending |->
     IF k \in trackerPending THEN trackerState[k] ELSE durable[k]]

(* ---- readMarkdownFiles ---- *)
FileData(f, state) ==
  [fileName |-> Basename(f),
   hasChanged |-> IF useTracker
                    THEN HasFileChanged(state, PathFromRoot(f), fileContent[f])
                    ELSE TRUE,
   path |-> f]

RECURSIVE SortNames(_)
SortNames(S) ==
  IF S = {} THEN <<>>
  ELSE LET m == CHOOSE x \in S : \A y \in S : NameRank(x) <= NameRank(y)
       IN <<m>> \o SortNames(S \ {m})

IsPrefix(p, f) == Len(p) <= Len(f) /\ SubSeq(f, 1, Len(p)) = p

RECURSIVE walk(_, _)
walk(currentPath, state) ==
  LET fileNames == {f[Len(f)] : f \in {g \in fs : Len(g) = Len(currentPath) + 1
                                                   /\ IsPrefix(currentPath, g)}}
      dirNames == {f[Len(currentPath) + 1] :
                     f \in {g \in fs : Len(g) > Len(currentPath) + 1
                                       /\ IsPrefix(currentPath, g)}}
      fseq == SortNames(fileNames)
      dseq == SortNames(dirNames)
  IN [name |-> IF currentPath = <<>> THEN Dot ELSE currentPath[Len(currentPath)],
      path |-> currentPath,
      files |-> [i \in 1..Len(fseq) |-> FileData(Append(currentPath, fseq[i]), state)],
      subfolders |-> [i \in 1..Len(dseq) |-> walk(Append(currentPath, dseq[i]), state)]]

EmptyMap == [k \in {} |-> 0]

(* The state before main reads the directory; the root page has the title   *)
(* given *)
SyncInitTitled(title) ==
  /\ fs \in LocalTrees
  /\ fileContent = [f \in fs |-> "v1"]
  /\ useTracker \in BOOLEAN
  /\ durable \in {[k \in {PathFromRoot(f) : f \in S} |-> Fingerprint("v1")] :
                    S \in IF useTracker THEN SUBSET fs ELSE {{}}}
  /\ trackerState = EmptyMap
  /\ trackerPending = {}
  /\ dir = <<>>
  /\ rootPageId \in {RootApiId, StripDashes(RootApiId)}
  /\ deleteNonExistentFiles \in BOOLEAN
  /\ \E S \in RemoteTrees : remotePages = [InitialRemote(S) EXCEPT ![1].title = title]
  /\ nextId = 1
  /\ linkMap = BuildIndex(remotePages, maxDepth, Len(remotePages))
  /\ syncPc = "read"
  /\ stack = <<>>
  /\ pages = <<>>
  /\ folderPageIds = {}
  /\ fileIdx = 0
  /\ sortedEntries = <<>>
  /\ archiveIdx = 0
  /\ archivedPages = {}
  /\ calls = <<>>
  /\ getContentCalls = <<>>
  /\ resolved = <<>>
  /\ saved = <<>>
  /\ run = 1
  /\ localChange = FALSE
  /\ failedAt = 0

SyncInit == SyncInitTitled(RootTitle)
(* The root page is titled like a local file or folder *)
SyncInitRootNamed == SyncInitTitled(A)

(* main, lines 59-74 of md-to-notion-cli.ts: the state file is loaded and    *)
(* the directory is read; hasFileChanged is called for every markdown file.  *)
ReadMarkdownFiles ==
  /\ syncPc = "read"
  /\ dir' = walk(<<>>, durable)
  /\ trackerState' = IF useTracker THEN StateAfterRead(durable, fs) ELSE durable
  /\ trackerPending' = IF useTracker THEN PendingAfterRead(durable, fs) ELSE {}
  /\ syncPc' = "ready"
  /\ UNCHANGED <<fs, fileContent, useTracker, durable, rootPageId,
                 deleteNonExistentFiles, remotePages, nextId, stack, pages,
                 folderPageIds, fileIdx, sortedEntries, archiveIdx, archivedPages,
                 calls, getContentCalls, resolved, saved, run, localChange, linkMap>>
  /\ UNCHANGED failedAt
  /\ UNCHANGED <<retryVars, crawlVars, auxVars>>

(* ---- syncToNotion ---- *)
(* An error thrown by a remote call (after its retries) is not caught, or is *)
(* caught, logged and thrown again (lines 385-388, 745-750): the run rejects *)
ThrownSwallowed == "done"
Thrown == "failed"

Call(op, target, title) == [op |-> op, target |-> target, title |-> title]

(* line 553-554 *)
ChildParentName(folder, parentName) ==
  IF dir.name = folder.name THEN parentName ELSE parentName \o Slash \o folder.name

(* activation record of syncFolder once the folder's page is known *)
Frame(folder, folderPageId, parentName) ==
  [folder |-> folder, folderPageId |-> folderPageId,
   childParentName |-> ChildParentName(folder, parentName),
   fileIdx |-> 1, subIdx |-> 1]

Top == stack[Len(stack)]
NextIsFileLast(f) ==
  f.subIdx > Len(f.folder.subfolders) /\ f.fileIdx <= Len(f.folder.files)
NextIsFile(f) == f.fileIdx <= Len(f.folder.files)
NextIsSub(f) == ~NextIsFile(f) /\ f.subIdx <= Len(f.folder.subfolders)
NextItem(f) ==
  IF NextIsFile(f) THEN f.folder.files[f.fileIdx] ELSE f.folder.subfolders[f.subIdx]
NextName(f) == IF NextIsFile(f) THEN NextItem(f).fileName ELSE NextItem(f).name
NextKey(f) == commonPageKey(f.childParentName, NextName(f))

LinkMapHasNever(key) == FALSE
LinkMapHas(key) == MapHas(linkMap, key)

(* syncFolder after createOrUpdatePage returned pageId for the next item *)
StackAfter(pageId) ==
  IF NextIsFile(Top)
    THEN [stack EXCEPT ![Len(stack)].fileIdx = @ + 1]
    ELSE Append([stack EXCEPT ![Len(stack)].subIdx = @ + 1],
                Frame(NextItem(Top), pageId, Top.childParentName))
PagesAfter(pageId) ==
  IF NextIsFile(Top) THEN Append(pages, [pageId |-> pageId, file |-> NextItem(Top)])
  ELSE pages
FolderPageIdsAfter(pageId) ==
  IF NextIsFile(Top) THEN folderPageIds ELSE folderPageIds \cup {pageId}

(* what was observed when the item was resolved *)
Resolution(pageId, created) ==
  [item |-> NextItem(Top).path,
   kind |-> IF NextIsFile(Top) THEN "file" ELSE "folder",
   key |-> NextKey(Top),
   pageId |-> pageId,
   created |-> created,
   parentPage |-> Top.folderPageId,
   present |-> \E i \in 1..Len(linkMap) : linkMap[i].key = NextKey(Top),
   indexed |-> {linkMap[i].value.id : i \in {j \in 1..Len(linkMap) : linkMap[j].key = NextKey(Top)}}]

(* lines 629-631 and 540-554: syncFolder is entered for the root folder *)
SyncStart ==
  /\ syncPc = "ready"
  /\ stack' = <<Frame(dir, rootPageId, Dot)>>
  /\ folderPageIds' = {rootPageId}
  /\ pages' = <<>>
  /\ syncPc' = "walk"
  /\ UNCHANGED <<fs, fileContent, useTracker, durable, trackerState, trackerPending,
                 dir, rootPageId, deleteNonExistentFiles, remotePages, nextId,
                 fileIdx, sortedEntries, archiveIdx, archivedPages, calls,
                 getContentCalls, resolved, saved, run, localChange, linkMap>>
  /\ UNCHANGED failedAt
  /\ UNCHANGED <<retryVars, crawlVars, auxVars>>

(* createOrUpdatePage, lines 400-406: the key is in the index *)
ReusePage ==
  /\ syncPc = "walk"
  /\ stack # <<>>
  /\ NextIsFile(Top) \/ NextIsSub(Top)
  /\ LinkMapHas(NextKey(Top))
  /\ LET pageId == MapGet(linkMap, NextKey(Top)).id
     IN /\ stack' = StackAfter(pageId)
        /\ pages' = PagesAfter(pageId)
        /\ folderPageIds' = FolderPageIdsAfter(pageId)
        /\ resolved' = Append(resolved, Resolution(pageId, FALSE))
  /\ UNCHANGED <<fs, fileContent, useTracker, durable, trackerState, trackerPending,
                 dir, rootPageId, deleteNonExistentFiles, remotePages, nextId, syncPc,
                 fileIdx, sortedEntries, archiveIdx, archivedPages, calls,
                 getContentCalls, saved, run, localChange, linkMap>>
  /\ UNCHANGED failedAt
  /\ UNCHANGED <<retryVars, crawlVars, auxVars>>

(* createOrUpdatePage, lines 407-420: the key is absent, a page is created   *)
(* (ok) or the create call fails after its retries (~ok) *)
CreatePage(ok) ==
  /\ syncPc = "walk"
  /\ stack # <<>>
  /\ NextIsFile(Top) \/ NextIsSub(Top)
  /\ ~LinkMapHas(NextKey(Top))
  /\ calls' = Append(calls, Call("create", Top.folderPageId, NextName(Top)))
  /\ IF ok
       THEN LET page == RemotePage(NewId(nextId), PageIdx(remotePages, Top.folderPageId),
                                   NextName(Top), "empty")
            IN /\ remotePages' = Append(remotePages, page)
               /\ nextId' = nextId + 1
               /\ linkMap' = MapSet(linkMap, NextKey(Top), newNotionPageLink(page))
               /\ stack' = StackAfter(page.id)
               /\ pages' = PagesAfter(page.id)
               /\ folderPageIds' = FolderPageIdsAfter(page.id)
               /\ resolved' = Append(resolved, Resolution(page.id, TRUE))
               /\ UNCHANGED syncPc
       ELSE /\ syncPc' = Thrown
            /\ UNCHANGED <<remotePages, nextId, linkMap, stack, pages, folderPageIds, resolved>>
  /\ failedAt' = IF ok THEN failedAt ELSE Len(calls')
  /\ UNCHANGED <<fs, fileContent, useTracker, durable, trackerState, trackerPending,
                 dir, rootPageId, deleteNonExistentFiles, fileIdx, sortedEntries,
                 archiveIdx, archivedPages, getContentCalls, saved, run, localChange>>
  /\ UNCHANGED <<retryVars, crawlVars, auxVars>>

(* syncFolder returns (line 578); the outermost return starts the file loop  *)
LeaveFolder ==
  /\ syncPc = "walk"
  /\ stack # <<>>
  /\ ~NextIsFile(Top) /\ ~NextIsSub(Top)
  /\ stack' = SubSeq(stack, 1, Len(stack) - 1)
  /\ IF Len(stack) = 1
       THEN syncPc' = "files" /\ fileIdx' = 1
       ELSE UNCHANGED <<syncPc, fileIdx>>
  /\ UNCHANGED <<fs, fileContent, useTracker, durable, trackerState, trackerPending,
                 dir, rootPageId, deleteNonExistentFiles, remotePages, nextId, pages,
                 folderPageIds, sortedEntries, archiveIdx, archivedPages, calls,
                 getContentCalls, resolved, saved, run, localChange, linkMap>>
  /\ UNCHANGED failedAt
  /\ UNCHANGED <<retryVars, crawlVars, auxVars>>

CurPage == pages[fileIdx]
InFileLoop == syncPc = "files" /\ fileIdx <= Len(pages)

IsUnchangedNever(file) == FALSE
IsUnchangedAlways(file) == TRUE
IsUnchanged(file) == file.hasChanged = FALSE

(* page.file.getContent(linkUrlMap): the blocks of the file's text *)
Desired(file) == fileContent[file.path]
Existing(pageId) == remotePages[PageIdx(remotePages, pageId)].content

(* mergeBlocks (merge-blocks.ts is not among the sources; section 4.3 of    *)
(* the specification): appends are requested unless the lists are equal, and the    *)
(* existing blocks that are not wanted are scheduled for deletion *)
MergeAppends(existing, desired) == existing # desired
MergeDeletes(existing, desired) == existing \notin {desired, "empty"}

WithContent(pageId, content) ==
  [remotePages EXCEPT ![PageIdx(remotePages, pageId)].content = content]

(* lines 646-653 *)
SkipUnchanged ==
  /\ InFileLoop
  /\ IsUnchanged(CurPage.file)
  /\ fileIdx' = fileIdx + 1
  /\ UNCHANGED <<fs, fileContent, useTracker, durable, trackerState, trackerPending,
                 dir, rootPageId, deleteNonExistentFiles, remotePages, nextId, syncPc,
                 stack, pages, folderPageIds, sortedEntries, archiveIdx, archivedPages,
                 calls, getContentCalls, resolved, saved, run, localChange, linkMap>>
  /\ UNCHANGED failedAt
  /\ UNCHANGED <<retryVars, crawlVars, auxVars>>

(* lines 655-662 and 583: getContent, then updateBlocks fetches the page's   *)
(* blocks and calls mergeBlocks *)
GetExistingBlocks(ok) ==
  /\ InFileLoop
  /\ ~IsUnchanged(CurPage.file)
  /\ getContentCalls' = Append(getContentCalls, CurPage.file.path)
  /\ calls' = Append(calls, Call("list", CurPage.pageId, <<>>))
  /\ syncPc' = IF ~ok THEN Thrown
               ELSE IF MergeAppends(Existing(CurPage.pageId), Desired(CurPage.file))
                 THEN "append" ELSE "commit"
  /\ failedAt' = IF ok THEN failedAt ELSE Len(calls')
  /\ UNCHANGED <<fs, fileContent, useTracker, durable, trackerState, trackerPending,
                 dir, rootPageId, deleteNonExistentFiles, remotePages, nextId,
                 stack, pages, folderPageIds, fileIdx, sortedEntries, archiveIdx,
                 archivedPages, resolved, saved, run, localChange, linkMap>>
  /\ UNCHANGED <<retryVars, crawlVars, auxVars>>

(* lines 588-614: the append callback of mergeBlocks *)
AppendBlocks(ok) ==
  /\ syncPc = "append"
  /\ calls' = Append(calls, Call("append", CurPage.pageId, <<>>))
  /\ failedAt' = IF ok THEN failedAt ELSE Len(calls')
  /\ IF ~ok
       THEN syncPc' = Thrown /\ UNCHANGED remotePages
       ELSE IF MergeDeletes(Existing(CurPage.pageId), Desired(CurPage.file))
         THEN /\ syncPc' = "delete"
              /\ remotePages' = WithContent(CurPage.pageId, "mixed")
         ELSE /\ syncPc' = "commit"
              /\ remotePages' = WithContent(CurPage.pageId, Desired(CurPage.file))
  /\ UNCHANGED <<fs, fileContent, useTracker, durable, trackerState, trackerPending,
                 dir, rootPageId, deleteNonExistentFiles, nextId, stack, pages,
                 folderPageIds, fileIdx, sortedEntries, archiveIdx, archivedPages,
                 getContentCalls, resolved, saved, run, localChange, linkMap>>
  /\ UNCHANGED <<retryVars, crawlVars, auxVars>>

(* lines 620-626: the scheduled deletions *)
DeleteBlocks(ok) ==
  /\ syncPc = "delete"
  /\ calls' = Append(calls, Call("delete", CurPage.pageId, <<>>))
  /\ IF ok
       THEN /\ syncPc' = "commit"
            /\ remotePages' = WithContent(CurPage.pageId, Desired(CurPage.file))
       ELSE syncPc' = Thrown /\ UNCHANGED remotePages
  /\ failedAt' = IF ok THEN failedAt ELSE Len(calls')
  /\ UNCHANGED <<fs, fileContent, useTracker, durable, trackerState, trackerPending,
                 dir, rootPageId, deleteNonExistentFiles, nextId, stack, pages,
                 folderPageIds, fileIdx, sortedEntries, archiveIdx, archivedPages,
                 getContentCalls, resolved, saved, run, localChange, linkMap>>
  /\ UNCHANGED <<retryVars, crawlVars, auxVars>>

(* lines 666-669 *)
CommitPath(file) == PathJoin(IF file.fileName = Dot THEN <<>> ELSE file.fileName, MD)

(* lines 664-671: the file's state is saved *)
SaveFileState ==
  /\ syncPc = "commit"
  /\ IF useTracker
       THEN /\ durable' = DurableAfterSave(CommitPath(CurPage.file))
            /\ trackerPending' = trackerPending \ {CommitPath(CurPage.file)}
            /\ saved' = Append(saved, CommitPath(CurPage.file))
       ELSE UNCHANGED <<durable, trackerPending, saved>>
  /\ fileIdx' = fileIdx + 1
  /\ syncPc' = "files"
  /\ UNCHANGED <<fs, fileContent, useTracker, trackerState, dir, rootPageId,
                 deleteNonExistentFiles, remotePages, nextId, stack, pages,
                 folderPageIds, sortedEntries, archiveIdx, archivedPages, calls,
                 getContentCalls, resolved, run, localChange, linkMap>>
  /\ UNCHANGED failedAt
  /\ UNCHANGED <<retryVars, crawlVars, auxVars>>

(* lines 686-689 *)
processedNotionPageIds == {pages[i].pageId : i \in 1..Len(pages)} \cup folderPageIds

(* lines 697-699: Array.prototype.sort is stable *)
RECURSIVE InsertByKeyLength(_, _)
InsertByKeyLength(sorted, e) ==
  IF sorted = <<>> THEN <<e>>
  ELSE IF Len(sorted[Len(sorted)].key) <= Len(e.key) THEN Append(sorted, e)
  ELSE Append(InsertByKeyLength(SubSeq(sorted, 1, Len(sorted) - 1), e), sorted[Len(sorted)])
RECURSIVE SortedByKeyLength(_)
SortedByKeyLength(m) ==
  IF m = <<>> THEN <<>>
  ELSE InsertByKeyLength(SortedByKeyLength(SubSeq(m, 1, Len(m) - 1)), m[Len(m)])
SortEntries(m) == SortedByKeyLength(m)

(* lines 680-682 *)
DurableAtEndUnsaved == durable
DurableAtEnd == IF useTracker THEN DurableAfterSaveAll ELSE durable

ArchivalEnabled(flag) == flag

(* lines 674-699: the file loop has ended; pending states are saved and the  *)
(* archival pass starts if it was asked for *)
FinishFiles ==
  /\ syncPc = "files"
  /\ fileIdx > Len(pages)
  /\ durable' = DurableAtEnd
  /\ trackerPending' = IF useTracker THEN {} ELSE trackerPending
  /\ IF ArchivalEnabled(deleteNonExistentFiles)
       THEN /\ sortedEntries' = SortEntries(linkMap)
            /\ archiveIdx' = 1
            /\ syncPc' = "archive"
       ELSE /\ syncPc' = "done"
            /\ UNCHANGED <<sortedEntries, archiveIdx>>
  /\ UNCHANGED <<fs, fileContent, useTracker, trackerState, dir, rootPageId,
                 deleteNonExistentFiles, remotePages, nextId, stack, pages,
                 folderPageIds, fileIdx, archivedPages, calls, getContentCalls,
                 resolved, saved, run, localChange, linkMap>>
  /\ UNCHANGED failedAt
  /\ UNCHANGED <<retryVars, crawlVars, auxVars>>

Entry == sortedEntries[archiveIdx]
InArchiveLoop == syncPc = "archive" /\ archiveIdx <= Len(sortedEntries)

(* lines 702-703 *)
IsRootPageExact(id) == id = rootPageId
IsRootPage(id) == StripDashes(id) = StripDashes(rootPageId)

(* line 707 *)
IsProcessed(id) == id \in processedNotionPageIds

(* lines 713-733 *)
HasArchivedAncestorNever(key) == FALSE
HasArchivedAncestor(key) ==
  LET pathParts == Split(key, "/")
  IN \E i \in 1..(Len(pathParts) - 1) :
       JoinWith(SubSeq(pathParts, 1, i), Slash) \in archivedPages

SkipsEntry(e) == IsRootPage(e.value.id) \/ IsProcessed(e.value.id) \/ HasArchivedAncestor(e.key)

(* lines 704-706, 707-709, 735-737: continue *)
ArchiveSkip ==
  /\ InArchiveLoop
  /\ SkipsEntry(Entry)
  /\ archiveIdx' = archiveIdx + 1
  /\ UNCHANGED <<fs, fileContent, useTracker, durable, trackerState, trackerPending,
                 dir, rootPageId, deleteNonExistentFiles, remotePages, nextId, syncPc,
                 stack, pages, folderPageIds, fileIdx, sortedEntries, archivedPages,
                 calls, getContentCalls, resolved, saved, run, localChange, linkMap>>
  /\ UNCHANGED failedAt
  /\ UNCHANGED <<retryVars, crawlVars, auxVars>>

(* lines 739-750 *)
ArchivePage(ok) ==
  /\ InArchiveLoop
  /\ ~SkipsEntry(Entry)
  /\ calls' = Append(calls, Call("archive", Entry.value.id, Entry.key))
  /\ IF ok
       THEN /\ archivedPages' = archivedPages \cup {Entry.key}
            /\ remotePages' =
                 [remotePages EXCEPT ![PageIdx(remotePages, Entry.value.id)].archived = TRUE]
            /\ archiveIdx' = archiveIdx + 1
            /\ UNCHANGED syncPc
       ELSE /\ syncPc' = Thrown
            /\ UNCHANGED <<archivedPages, remotePages, archiveIdx>>
  /\ failedAt' = IF ok THEN failedAt ELSE Len(calls')
  /\ UNCHANGED <<fs, fileContent, useTracker, durable, trackerState, trackerPending,
                 dir, rootPageId, deleteNonExistentFiles, nextId, stack, pages,
                 folderPageIds, fileIdx, sortedEntries, getContentCalls, resolved,
                 saved, run, localChange, linkMap>>
  /\ UNCHANGED <<retryVars, crawlVars, auxVars>>

(* line 751-753: the archival loop has ended *)
ArchiveEnd ==
  /\ syncPc = "archive"
  /\ archiveIdx > Len(sortedEntries)
  /\ syncPc' = "done"
  /\ UNCHANGED <<fs, fileContent, useTracker, durable, trackerState, trackerPending,
                 dir, rootPageId, deleteNonExistentFiles, remotePages, nextId,
                 stack, pages, folderPageIds, fileIdx, sortedEntries, archiveIdx,
                 archivedPages, calls, getContentCalls, resolved, saved, run,
                 localChange, linkMap>>
  /\ UNCHANGED failedAt
  /\ UNCHANGED <<retryVars, crawlVars, auxVars>>

(* The command is run a second time: a new process, which may find one local *)
(* file edited, loads the state file and rebuilds the index (main, lines     *)
(* 59-128 of md-to-notion-cli.ts). *)
SecondRun(edit) ==
  /\ syncPc = "done"
  /\ run = 1
  /\ run' = run + 1
  /\ fileContent' = [f \in fs |-> IF f = edit THEN "v2" ELSE fileContent[f]]
  /\ localChange' = (edit # <<>>)
  /\ linkMap' = BuildIndex(remotePages, maxDepth, Len(remotePages))
  /\ trackerState' = EmptyMap
  /\ trackerPending' = {}
  /\ dir' = <<>>
  /\ syncPc' = "read"
  /\ stack' = <<>>
  /\ pages' = <<>>
  /\ folderPageIds' = {}
  /\ fileIdx' = 0
  /\ sortedEntries' = <<>>
  /\ archiveIdx' = 0
  /\ archivedPages' = {}
  /\ calls' = <<>>
  /\ getContentCalls' = <<>>
  /\ resolved' = <<>>
  /\ saved' = <<>>
  /\ failedAt' = 0
  /\ UNCHANGED <<fs, useTracker, durable, rootPageId, deleteNonExistentFiles,
                 remotePages, nextId>>
  /\ UNCHANGED <<retryVars, crawlVars, auxVars>>

SyncNext ==
  \/ ReadMarkdownFiles
  \/ SyncStart
  \/ ReusePage
  \/ \E ok \in BOOLEAN : CreatePage(ok)
  \/ LeaveFolder
  \/ SkipUnchanged
  \/ \E ok \in BOOLEAN : GetExistingBlocks(ok)
  \/ \E ok \in BOOLEAN : AppendBlocks(ok)
  \/ \E ok \in BOOLEAN : DeleteBlocks(ok)
  \/ SaveFileState
  \/ FinishFiles
  \/ ArchiveSkip
  \/ \E ok \in BOOLEAN : ArchivePage(ok)
  \/ ArchiveEnd
  \/ \E edit \in fs \cup {<<>>} : SecondRun(edit)

---------------------------------------------------------------------------
(* Paginated listing of a block's children *)


(* What blocks.children.list answers for start_cursor c (0: undefined) when  *)
(* the block's children are seq and a response holds at most size results.   *)
(* A cursor is the position of the first result of the next response. *)
ListChildren(seq, c, size) ==
  LET first == IF c = 0 THEN 1 ELSE c
      last == Min(first + size - 1, Len(seq))
  IN [results |-> SubSeq(seq, first, last),
      has_more |-> last < Len(seq),
      next_cursor |-> last + 1]

(* isBlockObjectResponse: the result is a full block object *)
isBlockObjectResponse(b) == b.full
Block(n, full) == [id |-> n, full |-> full]
BlockLists ==
  UNION {{[i \in 1..n |-> Block(i, f[i])] : f \in [1..n -> BOOLEAN]} : n \in 0..MaxBlocks}

BlocksInit ==
  /\ blBlocks \in BlockLists
  /\ blPageSize \in 1..MaxPageSize
  /\ blPc = "loop"
  /\ cursor = 0
  /\ allBlocks = <<>>
  /\ pageRequests = <<0>>
  /\ finalBlocks = <<>>

(* getAllBlockPages, lines 481-505: one iteration of the discovery loop, and *)
(* the return of line 504 when the loop ends with a single request *)
DiscoverPage(ok) ==
  /\ blPc = "loop"
  /\ IF ~ok
       THEN /\ blPc' = "failed"
            /\ UNCHANGED <<cursor, allBlocks, pageRequests, finalBlocks>>
       ELSE LET response == ListChildren(blBlocks, cursor, blPageSize)
                blocks == SelectSeq(response.results, isBlockObjectResponse)
                next == IF response.has_more THEN response.next_cursor ELSE 0
                requests == IF next # 0 THEN Append(pageRequests, next) ELSE pageRequests
            IN /\ allBlocks' = allBlocks \o blocks
               /\ cursor' = next
               /\ pageRequests' = requests
               /\ IF next # 0
                    THEN UNCHANGED <<blPc, finalBlocks>>
                    ELSE IF Len(requests) <= 1
                      THEN blPc' = "returned" /\ finalBlocks' = allBlocks'
                      ELSE blPc' = "remaining" /\ UNCHANGED finalBlocks
  /\ UNCHANGED <<blBlocks, blPageSize>>
  /\ UNCHANGED <<retryVars, crawlVars, syncVars, linkMap, renewVars, readVars, moreVars>>

RECURSIVE Flat(_)
Flat(ss) == IF ss = <<>> THEN <<>> ELSE Head(ss) \o Flat(Tail(ss))

(* getAllBlockPages, lines 507-529: the requests after the first are issued  *)
(* together; Promise.all gives their results in the order of the requests *)
FetchRemaining(ok) ==
  /\ blPc = "remaining"
  /\ IF ~ok
       THEN blPc' = "failed" /\ UNCHANGED finalBlocks
       ELSE LET rest == Tail(pageRequests)
                remainingBlocks ==
                  [i \in 1..Len(rest) |->
                     SelectSeq(ListChildren(blBlocks, rest[i], blPageSize).results,
                               isBlockObjectResponse)]
            IN /\ finalBlocks' = allBlocks \o Flat(remainingBlocks)
               /\ blPc' = "returned"
  /\ UNCHANGED <<blBlocks, blPageSize, cursor, allBlocks, pageRequests>>
  /\ UNCHANGED <<retryVars, crawlVars, syncVars, linkMap, renewVars, readVars, moreVars>>

BlocksNext ==
  \/ \E ok \in BOOLEAN : DiscoverPage(ok)
  \/ \E ok \in BOOLEAN : FetchRemaining(ok)

BlocksIdle ==
  /\ blBlocks = <<>>
  /\ blPageSize = 0
  /\ blPc = "idle"
  /\ cursor = 0
  /\ allBlocks = <<>>
  /\ pageRequests = <<>>
  /\ finalBlocks = <<>>

---------------------------------------------------------------------------
(* main with --renew: archiveChildPages, then collectCurrentFiles *)

ChildBlock(n, type) == [id |-> n, type |-> type, full |-> TRUE, archived |-> FALSE]
ChildLists ==
  UNION {{[i \in 1..n |-> ChildBlock(i, t[i])] : t \in [1..n -> {"child_page", "paragraph"}]} :
           n \in 0..MaxBlocks}

(* The remote store lists the blocks that are not archived *)
Listed(children) == SelectSeq(children, LAMBDA b : ~b.archived)
IsChildPage(child) == isBlockObjectResponse(child) /\ child.type = "child_page"

RenewInit ==
  /\ rnChildren \in ChildLists
  /\ rnPageSize \in 1..MaxPageSize
  /\ rnPc = "list"
  /\ rnResults = <<>>
  /\ rnIdx = 0
  /\ rnIndex = {}

(* archiveChildPages, lines 757-763: one list call, without a cursor *)
RenewList(ok) ==
  /\ rnPc = "list"
  /\ IF ok
       THEN /\ rnResults' = ListChildren(Listed(rnChildren), 0, rnPageSize).results
            /\ rnIdx' = 1
            /\ rnPc' = "archive"
       ELSE /\ rnPc' = "failed"
            /\ UNCHANGED <<rnResults, rnIdx>>
  /\ UNCHANGED <<rnChildren, rnPageSize, rnIndex>>
  /\ UNCHANGED <<retryVars, crawlVars, syncVars, linkMap, blockVars, readVars, moreVars>>

(* lines 765-766: a result that is not a child page is passed over *)
RenewSkip ==
  /\ rnPc = "archive"
  /\ rnIdx <= Len(rnResults)
  /\ ~IsChildPage(rnResults[rnIdx])
  /\ rnIdx' = rnIdx + 1
  /\ UNCHANGED <<rnChildren, rnPageSize, rnPc, rnResults, rnIndex>>
  /\ UNCHANGED <<retryVars, crawlVars, syncVars, linkMap, blockVars, readVars, moreVars>>

(* lines 766-768 and 772-781: archivePage of a child page *)
RenewArchive(ok) ==
  /\ rnPc = "archive"
  /\ rnIdx <= Len(rnResults)
  /\ IsChildPage(rnResults[rnIdx])
  /\ IF ok
       THEN /\ rnChildren' =
                 [i \in 1..Len(rnChildren) |->
                    IF rnChildren[i].id = rnResults[rnIdx].id
                      THEN [rnChildren[i] EXCEPT !.archived = TRUE]
                      ELSE rnChildren[i]]
            /\ rnIdx' = rnIdx + 1
            /\ UNCHANGED rnPc
       ELSE /\ rnPc' = "failed"
            /\ UNCHANGED <<rnChildren, rnIdx>>
  /\ UNCHANGED <<rnPageSize, rnResults, rnIndex>>
  /\ UNCHANGED <<retryVars, crawlVars, syncVars, linkMap, blockVars, readVars, moreVars>>

(* md-to-notion-cli.ts lines 111-116 with sync-to-notion.ts lines 221-223 and *)
(* 250-255: archiveChildPages has returned and the existing pages are         *)
(* collected; the root's child pages are those of the one list call of the    *)
(* root's task *)
RenewCollect ==
  /\ rnPc = "archive"
  /\ rnIdx > Len(rnResults)
  /\ rnIndex' =
       {b.id : b \in {c \in Range(ListChildren(Listed(rnChildren), 0, rnPageSize).results) :
                        IsChildPage(c)}}
  /\ rnPc' = "collected"
  /\ UNCHANGED <<rnChildren, rnPageSize, rnResults, rnIdx>>
  /\ UNCHANGED <<retryVars, crawlVars, syncVars, linkMap, blockVars, readVars, moreVars>>

RenewNext ==
  \/ \E ok \in BOOLEAN : RenewList(ok)
  \/ RenewSkip
  \/ \E ok \in BOOLEAN : RenewArchive(ok)
  \/ RenewCollect

RenewIdle ==
  /\ rnChildren = <<>>
  /\ rnPageSize = 0
  /\ rnPc = "idle"
  /\ rnResults = <<>>
  /\ rnIdx = 0
  /\ rnIndex = {}

(* notion-ignore.ts as the README gives it, and readMarkdownFiles reading a  *)
(* directory that holds a .notionignore file *)

STAR == <<"*">>
BANG == <<"!">>
HASH == <<"#">>
SPACE == <<" ">>
NL == <<"\n">>
GLOBSTAR == <<"*", "*">>
TXT == <<".", "t", "x", "t">>
NODE_MODULES == <<"n", "o", "d", "e", "_", "m", "o", "d", "u", "l", "e", "s">>

StartsWith(str, pre) == Len(pre) <= Len(str) /\ SubSeq(str, 1, Len(pre)) = pre
EndsWith(str, suf) ==
  Len(suf) <= Len(str) /\ SubSeq(str, Len(str) - Len(suf) + 1, Len(str)) = suf
(* String.prototype.includes *)
Includes(str, sub) ==
  \E i \in 0..(Len(str) - Len(sub)) : SubSeq(str, i + 1, i + Len(sub)) = sub

IsSpace(c) == c \in {" ", "\t", "\r"}
(* String.prototype.trim *)
RECURSIVE TrimStart(_)
TrimStart(str) ==
  IF str # <<>> /\ IsSpace(Head(str)) THEN TrimStart(Tail(str)) ELSE str
RECURSIVE TrimEnd(_)
TrimEnd(str) ==
  IF str # <<>> /\ IsSpace(str[Len(str)])
    THEN TrimEnd(SubSeq(str, 1, Len(str) - 1)) ELSE str
Trim(str) == TrimEnd(TrimStart(str))

IsPatternLine(line) == line # <<>> /\ ~StartsWith(line, HASH)

(* parseNotionIgnore: readFileSync throws, or the text is split into lines,  *)
(* every line is trimmed, and empty lines and comment lines are dropped *)
parseNotionIgnore(readable, content) ==
  IF ~readable THEN <<>>
  ELSE LET lines == Split(content, "\n")
           trimmed == [i \in 1..Len(lines) |-> Trim(lines[i])]
       IN SelectSeq(trimmed, IsPatternLine)

(* getIgnorePatterns: parseNotionIgnore of <dirPath>/.notionignore *)
getIgnorePatterns(readable, content) == parseNotionIgnore(readable, content)

normalizePattern(pattern) ==
  IF EndsWith(pattern, Slash) THEN pattern \o GLOBSTAR
  ELSE IF StartsWith(pattern, BANG) /\ EndsWith(Tail(pattern), Slash)
    THEN BANG \o Tail(pattern) \o GLOBSTAR
  ELSE pattern

(* minimatch of one path segment against one pattern segment, where "*" is   *)
(* any run of characters; with dot: true a leading dot is matched as well *)
RECURSIVE GlobSegment(_, _)
GlobSegment(pat, str) ==
  IF pat = <<>> THEN str = <<>>
  ELSE IF Head(pat) = "*"
    THEN GlobSegment(Tail(pat), str) \/ (str # <<>> /\ GlobSegment(pat, Tail(str)))
  ELSE str # <<>> /\ Head(pat) = Head(str) /\ GlobSegment(Tail(pat), Tail(str))

(* minimatch of the segments of a path against the segments of a pattern:    *)
(* a "**" segment stands for any number of path segments *)
RECURSIVE MatchOne(_, _)
MatchOne(file, pattern) ==
  IF pattern = <<>> THEN file = <<>> \/ file = << <<>> >>
  ELSE IF file = <<>> THEN globstarSelf /\ pattern = <<GLOBSTAR>>
  ELSE IF Head(pattern) = GLOBSTAR
    THEN \/ Tail(pattern) = <<>>
         \/ \E k \in 1..Len(file) : MatchOne(SubSeq(file, k, Len(file)), Tail(pattern))
  ELSE GlobSegment(Head(pattern), Head(file)) /\ MatchOne(Tail(file), Tail(pattern))

(* minimatch(path, pattern, {dot: true, matchBase: true}): a pattern without *)
(* a slash is matched against the last segment of the path *)
minimatch(path, pattern) ==
  LET file == Split(path, "/")
      parts == Split(pattern, "/")
  IN IF Len(parts) = 1
       THEN MatchOne(<<file[Len(file)]>>, parts)
       ELSE MatchOne(file, parts)

(* The path as shouldIgnorePath matches it: backslashes become slashes and a *)
(* leading "./" is taken off *)
StripDotSlash(path) ==
  LET slashed == [i \in 1..Len(path) |-> IF path[i] = "\\" THEN "/" ELSE path[i]]
  IN IF StartsWith(slashed, Dot \o Slash) THEN SubSeq(slashed, 3, Len(slashed))
     ELSE slashed

IsNegation(pattern) == StartsWith(pattern, BANG)

(* The loop of shouldIgnorePath over the patterns in list order *)
RECURSIVE IgnoredAfter(_, _, _)
IgnoredAfter(normalizedPath, patterns, ignored) ==
  IF patterns = <<>> THEN ignored
  ELSE LET pattern == normalizePattern(Head(patterns))
           now == IF IsNegation(pattern)
                    THEN IF minimatch(normalizedPath, Tail(pattern))
                           THEN FALSE ELSE ignored
                    ELSE IF minimatch(normalizedPath, pattern)
                           THEN TRUE ELSE ignored
       IN IgnoredAfter(normalizedPath, Tail(patterns), now)

Reversed(seq) == [i \in 1..Len(seq) |-> seq[Len(seq) + 1 - i]]
ShouldIgnoreFirstMatch(filePath, patterns) ==
  IgnoredAfter(StripDotSlash(filePath), Reversed(patterns), FALSE)
shouldIgnorePath(filePath, patterns) ==
  IgnoredAfter(StripDotSlash(filePath), patterns, FALSE)

(* The lines a .notionignore file is made of; the last line of the file ends *)
(* with a newline as well *)
IgnoreLines ==
  {STAR \o MD, SPACE \o BANG \o B \o MD \o SPACE, DOCS \o Slash, SPACE \o HASH \o A}
RECURSIVE SeqsUpTo(_, _)
SeqsUpTo(S, n) ==
  IF n = 0 THEN {<<>>}
  ELSE LET shorter == SeqsUpTo(S, n - 1)
       IN shorter \cup {Append(q, x) : q \in shorter, x \in S}
IgnoreFiles == {JoinWith(Append(ls, <<>>), NL) : ls \in SeqsUpTo(IgnoreLines, MaxLines)}

(* The entries a directory may hold, by path; a name without a dot is a      *)
(* directory *)
EntryNames == <<A \o MD, A \o TXT, B, B \o MD, DOCS, NODE_MODULES>>
EntryRank(n) == CHOOSE i \in 1..Len(EntryNames) : EntryNames[i] = n
EntryPaths ==
  {<<A \o MD>>, <<B \o MD>>, <<A \o TXT>>, <<DOCS>>, <<DOCS, A \o MD>>, <<DOCS, B>>,
   <<DOCS, B, B \o MD>>, <<NODE_MODULES>>, <<NODE_MODULES, A \o MD>>}
IsDirectory(p) == "." \notin Range(p[Len(p)])
Directories ==
  {S \in SUBSET EntryPaths :
     /\ Cardinality(S) <= MaxEntries
     /\ \A p \in S : Len(p) > 1 => SubSeq(p, 1, Len(p) - 1) \in S}

(* The filter main hands to readMarkdownFiles (md-to-notion-cli.ts, lines    *)
(* 67-71); without --include the path itself is the text looked for *)
Filters ==
  {[include |-> <<>>, exclude |-> NODE_MODULES],
   [include |-> DOCS, exclude |-> B \o MD]}
filter(f, path) ==
  Includes(path, IF f.include = <<>> THEN path ELSE f.include)
    /\ ~Includes(path, f.exclude)

(* "./" + path.relative(dirPath, entryPath) *)
NormalizedPath(p) == Dot \o Slash \o JoinWith(p, Slash)

NullFolder == [null |-> TRUE]

ReadInit ==
  /\ igReadable \in BOOLEAN
  /\ igContent \in IF igReadable THEN IgnoreFiles ELSE {<<>>}
  /\ globstarSelf \in BOOLEAN
  /\ rdEntries \in Directories
  /\ rdBroken \in {{}} \cup {{p} : p \in rdEntries \cap {<<B \o MD>>}}
  /\ rdFilter \in Filters
  /\ ignorePatterns = <<>>
  /\ rdResult = NullFolder
  /\ rdPc = "init"
  /\ ignoreCalls = {}

(* read-md.ts, line 46 *)
GetIgnorePatterns ==
  /\ rdPc = "init"
  /\ ignorePatterns' = getIgnorePatterns(igReadable, igContent)
  /\ rdPc' = "parsed"
  /\ UNCHANGED <<igReadable, igContent, globstarSelf, rdEntries, rdBroken, rdFilter,
                 rdResult, ignoreCalls>>
  /\ UNCHANGED <<retryVars, crawlVars, syncVars, linkMap, blockVars, renewVars, moreVars>>

(* Lines 61-85 of read-md.ts: the entry passes the patterns, the filter and  *)
(* statSync *)
Kept(p) ==
  /\ ~shouldIgnorePath(NormalizedPath(p), ignorePatterns)
  /\ filter(rdFilter, NormalizedPath(p))
  /\ p \notin rdBroken

RECURSIVE SortEntryNames(_)
SortEntryNames(S) ==
  IF S = {} THEN <<>>
  ELSE LET m == CHOOSE x \in S : \A y \in S : EntryRank(x) <= EntryRank(y)
       IN <<m>> \o SortEntryNames(S \ {m})

IsNullNever(folder) == FALSE
IsNull(folder) == folder = NullFolder

(* walk of readMarkdownFiles, lines 48-123 *)
RECURSIVE walkDirectory(_)
walkDirectory(currentPath) ==
  LET entries == SortEntryNames({p[Len(p)] : p \in {q \in rdEntries :
                   Len(q) = Len(currentPath) + 1 /\ IsPrefix(currentPath, q)}})
      kept == SelectSeq(entries, LAMBDA n : Kept(Append(currentPath, n)))
      dirs == SelectSeq(kept, LAMBDA n : IsDirectory(Append(currentPath, n)))
      mds == SelectSeq(kept, LAMBDA n : ~IsDirectory(Append(currentPath, n))
                                          /\ EndsWith(n, MD))
      walked == [i \in 1..Len(dirs) |-> walkDirectory(Append(currentPath, dirs[i]))]
      folder == [name |-> IF currentPath = <<>> THEN Dot
                          ELSE currentPath[Len(currentPath)],
                 path |-> currentPath,
                 files |-> [i \in 1..Len(mds) |->
                              [fileName |-> SubSeq(mds[i], 1, Len(mds[i]) - Len(MD))]],
                 subfolders |-> SelectSeq(walked, LAMBDA sub : ~IsNull(sub))]
  IN IF Len(folder.files) > 0 \/ Len(folder.subfolders) > 0 THEN folder
     ELSE NullFolder

(* The entries the loop of walk comes to (line 57): those of the directory   *)
(* itself and of every directory walk is called for at line 90 *)
RECURSIVE Visited(_)
Visited(currentPath) ==
  LET here == {q \in rdEntries : Len(q) = Len(currentPath) + 1 /\ IsPrefix(currentPath, q)}
  IN here \cup UNION {Visited(q) : q \in {d \in here : Kept(d) /\ IsDirectory(d)}}

(* readMarkdownFiles, lines 119-123 *)
ReadDirectory ==
  /\ rdPc = "parsed"
  /\ rdResult' = walkDirectory(<<>>)
  /\ ignoreCalls' = {[path |-> NormalizedPath(p),
                      ignored |-> shouldIgnorePath(NormalizedPath(p), ignorePatterns)] :
                       p \in Visited(<<>>)}
  /\ rdPc' = "read"
  /\ UNCHANGED <<igReadable, igContent, globstarSelf, rdEntries, rdBroken, rdFilter,
                 ignorePatterns>>
  /\ UNCHANGED <<retryVars, crawlVars, syncVars, linkMap, blockVars, renewVars, moreVars>>

ReadNext ==
  \/ GetIgnorePatterns
  \/ ReadDirectory

ReadIdle ==
  /\ igReadable = FALSE
  /\ igContent = <<>>
  /\ globstarSelf = FALSE
  /\ rdEntries = {}
  /\ rdBroken = {}
  /\ rdFilter = [include |-> <<>>, exclude |-> <<>>]
  /\ ignorePatterns = <<>>
  /\ rdResult = NullFolder
  /\ rdPc = "idle"
  /\ ignoreCalls = {}

(* updateBlocks, line 583: the blocks of a page are fetched with their       *)
(* children, getExistingBlocks calling itself for every block that has any *)
UPDATE_BLOCKS_MAX_DEPTH == 10

RECURSIVE NestingDepth(_)
NestingDepth(b) == IF gbParent[b] = 0 THEN 0 ELSE 1 + NestingDepth(gbParent[b])
HasChildren(b) == \E c \in Pages : gbParent[c] = b

FetchInit ==
  /\ gbParent \in Trees
  /\ gbOption \in (0..MaxDepthBound) \cup {Infinity}
  /\ gbCalled = {}
  /\ gbPc = "init"

(* getExistingBlocks(notion, pageId, 10, 0) *)
GetExistingBlocksOfPage ==
  /\ gbPc = "init"
  /\ gbCalled' = {Root}
  /\ gbPc' = "fetching"
  /\ UNCHANGED <<gbParent, gbOption>>
  /\ UNCHANGED <<retryVars, crawlVars, syncVars, linkMap, blockVars, renewVars, readVars,
                 updateVars, parallelVars>>

(* Lines 436-458: within a call at currentDepth < maxDepth, the call for a   *)
(* block among the results that has children *)
GetExistingBlocksOfBlock(b) ==
  /\ gbPc = "fetching"
  /\ b \notin gbCalled
  /\ gbParent[b] \in gbCalled
  /\ HasChildren(b)
  /\ NestingDepth(gbParent[b]) < UPDATE_BLOCKS_MAX_DEPTH
  /\ gbCalled' = gbCalled \cup {b}
  /\ UNCHANGED <<gbParent, gbOption, gbPc>>
  /\ UNCHANGED <<retryVars, crawlVars, syncVars, linkMap, blockVars, renewVars, readVars,
                 updateVars, parallelVars>>

(* Every call has returned: existingBlocks is handed to mergeBlocks *)
GetExistingBlocksReturn ==
  /\ gbPc = "fetching"
  /\ \A b \in Pages \ gbCalled :
       ~(gbParent[b] \in gbCalled /\ HasChildren(b)
           /\ NestingDepth(gbParent[b]) < UPDATE_BLOCKS_MAX_DEPTH)
  /\ gbPc' = "returned"
  /\ UNCHANGED <<gbParent, gbOption, gbCalled>>
  /\ UNCHANGED <<retryVars, crawlVars, syncVars, linkMap, blockVars, renewVars, readVars,
                 updateVars, parallelVars>>

FetchNext ==
  \/ GetExistingBlocksOfPage
  \/ \E b \in Pages : GetExistingBlocksOfBlock(b)
  \/ GetExistingBlocksReturn

FetchIdle ==
  /\ gbParent = <<>>
  /\ gbOption = 0
  /\ gbCalled = {}
  /\ gbPc = "idle"

(* appendBlocksInChunks and updateBlocks. mergeBlocks is not among the       *)
(* sources: it is the caller of the two callbacks updateBlocks hands to it,  *)
(* and calls them in any order, with any blocks and any anchor *)
NOTION_BLOCK_LIMIT == 100
PageTarget == 0

BlockTypes == {"bulleted_list_item", "numbered_list_item"}
Paragraph(tag) == [type |-> "paragraph", tag |-> tag, children |-> <<>>]
(* A block with one child, which has one child, ..., depth blocks in all *)
RECURSIVE Chain(_, _, _)
Chain(type, depth, tag) ==
  [type |-> type, tag |-> tag,
   children |-> IF depth <= 1 THEN <<>> ELSE <<Chain(type, depth - 1, <<>>)>>]

SetMax(S) == CHOOSE x \in S : \A y \in S : y <= x
RECURSIVE findMaxDepth(_, _)
(* findMaxDepth of a node whose children are given: the deepest level under  *)
(* it, depth itself when it has no children *)
findMaxDepth(children, depth) ==
  SetMax({depth} \cup {findMaxDepth(children[k].children, depth + 1) : k \in 1..Len(children)})

TagsOf(blocks) == [k \in 1..Len(blocks) |-> blocks[k].tag]

(* The lists of blocks handed to appendBlocksInChunks: paragraphs, the last  *)
(* block possibly a list item with nested children *)
Paragraphs(n, call) == [k \in 1..n |-> Paragraph(<<call, k>>)]
AppendLengths ==
  {1, 2} \cup {NOTION_BLOCK_LIMIT + k : k \in (0 - 1)..MaxOver}
NestedLists(call) ==
  {[Paragraphs(n, call) EXCEPT ![n] = Chain(type, depth, <<call, n>>)] :
     n \in AppendLengths, type \in BlockTypes, depth \in 1..MaxNesting}
(* The lists mergeBlocks hands to the append callback *)
MergeLists(call) ==
  {Paragraphs(n, call) : n \in {1, NOTION_BLOCK_LIMIT}}
    \cup {<<Chain("bulleted_list_item", MaxNesting, <<call, 1>>)>>}

ExistingLists == {[k \in 1..n |-> k] : n \in 0..MaxExisting}
RemoteBlock(id, tag) == [id |-> id, tag |-> tag]
Original(id) == <<0, id>>

PositionOf(page, id) == CHOOSE k \in 1..Len(page) : page[k].id = id
(* blocks.children.append of the remote store: after the block named, or at  *)
(* the end *)
InsertAfter(page, afterId, new) ==
  IF afterId = 0 THEN page \o new
  ELSE LET pos == PositionOf(page, afterId)
       IN SubSeq(page, 1, pos) \o new \o SubSeq(page, pos + 1, Len(page))

NoCall == [call |-> 0, tags |-> <<>>, after |-> 0, afterId |-> 0, scheduled |-> FALSE]

AppendFrame(target, blocks, afterId) ==
  [target |-> target, blocks |-> blocks, i |-> 0, after |-> afterId,
   limitChild |-> findMaxDepth(blocks, 0) > 3, followups |-> <<>>, pc |-> "chunk"]
TopFrame == upStack[Len(upStack)]

UpdateStart ==
  /\ upExisting \in ExistingLists
  /\ upPage = [k \in 1..Len(upExisting) |-> RemoteBlock(upExisting[k], Original(upExisting[k]))]
  /\ upNextId = Len(upExisting) + 1
  /\ upMergeCalls = 0
  /\ upToDelete = <<>>
  /\ upDelIdx = 0
  /\ upStack = <<>>
  /\ upRequests = <<>>
  /\ upLast = NoCall

(* appendBlocksInChunks called by itself *)
AppendInit == upCaller = "direct" /\ upPc = "call" /\ UpdateStart
(* updateBlocks after getExistingBlocks has returned (line 584) *)
UpdateInit == upCaller = "updateBlocks" /\ upPc = "merge" /\ UpdateStart

(* appendBlocksInChunks(pageId, blocks, afterId) *)
CallAppend(blocks, afterId) ==
  /\ upPc = "call"
  /\ upStack' = <<AppendFrame(PageTarget, blocks, afterId)>>
  /\ upLast' = [call |-> 1, tags |-> TagsOf(blocks), after |-> afterId,
                afterId |-> afterId, scheduled |-> FALSE]
  /\ upMergeCalls' = 1
  /\ upPc' = "append"
  /\ UNCHANGED <<upCaller, upExisting, upPage, upNextId, upToDelete, upDelIdx, upRequests>>
  /\ UNCHANGED <<retryVars, crawlVars, syncVars, linkMap, blockVars, renewVars, readVars,
                 fetchVars, parallelVars>>

(* An insertion-ordered Set<string> *)
SetAddAgain(set, id) == Append(set, id)
SetAdd(set, id) == IF id \in Range(set) THEN set ELSE Append(set, id)

(* The append callback of lines 588-614, up to the call of line 613 *)
MergeAppend(blocks, after) ==
  /\ upPc = "merge"
  /\ upMergeCalls < MaxMergeCalls
  /\ LET headInsert == after = 0 /\ Len(upExisting) > 0
         afterId == IF headInsert THEN upExisting[1] ELSE after
         copy == Paragraph(Original(upExisting[1]))
         appendBlocks == IF headInsert /\ afterId \notin Range(upToDelete)
                           THEN Append(blocks, copy) ELSE blocks
     IN /\ upToDelete' = IF headInsert THEN SetAdd(upToDelete, afterId) ELSE upToDelete
        /\ upStack' = <<AppendFrame(PageTarget, appendBlocks, afterId)>>
        /\ upLast' = [call |-> upMergeCalls + 1, tags |-> TagsOf(blocks), after |-> after,
                      afterId |-> afterId,
                      scheduled |-> headInsert /\ afterId \in Range(upToDelete)]
  /\ upMergeCalls' = upMergeCalls + 1
  /\ upPc' = "append"
  /\ UNCHANGED <<upCaller, upExisting, upPage, upNextId, upDelIdx, upRequests>>
  /\ UNCHANGED <<retryVars, crawlVars, syncVars, linkMap, blockVars, renewVars, readVars,
                 fetchVars, parallelVars>>

(* The delete callback of lines 616-618 *)
MergeDelete(id) ==
  /\ upPc = "merge"
  /\ upMergeCalls < MaxMergeCalls
  /\ upToDelete' = SetAdd(upToDelete, id)
  /\ upMergeCalls' = upMergeCalls + 1
  /\ upLast' = NoCall
  /\ UNCHANGED <<upCaller, upExisting, upPage, upNextId, upPc, upDelIdx, upStack, upRequests>>
  /\ UNCHANGED <<retryVars, crawlVars, syncVars, linkMap, blockVars, renewVars, readVars,
                 fetchVars, parallelVars>>

(* blocks.slice(i, i + NOTION_BLOCK_LIMIT) *)
SliceTooLong(blocks, i) == SubSeq(blocks, i + 1, Min(i + NOTION_BLOCK_LIMIT + 1, Len(blocks)))
Slice(blocks, i) == SubSeq(blocks, i + 1, Min(i + NOTION_BLOCK_LIMIT, Len(blocks)))

(* Line 357: the children of the block are taken out of the request *)
TakesChildrenOut(limitChild, block) ==
  limitChild /\ block.type = "bulleted_list_item" /\ block.children # <<>>

(* Lines 354-362: the blocks of the chunk as they go out *)
ChunkOf(limitChild, slice) ==
  [k \in 1..Len(slice) |->
     IF TakesChildrenOut(limitChild, slice[k])
       THEN [slice[k] EXCEPT !.children = <<>>] ELSE slice[k]]
(* Lines 358 and 375-386: the children taken out, each with the block the    *)
(* response names for its parent; ids[k] is response.results[k].id *)
ChildrenOf(limitChild, slice, ids) ==
  LET out == SortedSeq({k \in 1..Len(slice) : TakesChildrenOut(limitChild, slice[k])})
  IN [j \in 1..Len(out) |-> [target |-> ids[out[j]], blocks |-> slice[out[j]].children]]

(* Lines 353-372: the request of one chunk; answered, the remote store holds *)
(* the blocks, or the call fails after its retries and line 389 throws *)
AppendChunk(ok) ==
  /\ upPc = "append"
  /\ TopFrame.pc = "chunk"
  /\ \E f \in {TopFrame} :
     \E slice \in {Slice(f.blocks, f.i)} :
     \E chunk \in {ChunkOf(f.limitChild, slice)} :
     \E ids \in {[k \in 1..Len(chunk) |-> upNextId + k - 1]} :
     \E follow \in {ChildrenOf(f.limitChild, slice, ids)} :
        /\ upRequests' = Append(upRequests,
             [op |-> "append", target |-> f.target, after |-> f.after,
              tags |-> TagsOf(chunk), depth |-> findMaxDepth(chunk, 0),
              level |-> Len(upStack), call |-> upMergeCalls,
              follow |-> {follow[j].target : j \in 1..Len(follow)}])
        /\ IF ok
             THEN /\ upPage' = IF f.target = PageTarget
                                 THEN InsertAfter(upPage, f.after,
                                        [k \in 1..Len(chunk) |-> RemoteBlock(ids[k], chunk[k].tag)])
                                 ELSE upPage
                  /\ upNextId' = upNextId + Len(chunk)
                  /\ upStack' = [upStack EXCEPT ![Len(upStack)].followups = follow,
                                                ![Len(upStack)].pc = "children"]
                  /\ UNCHANGED upPc
             ELSE /\ upPc' = "failed"
                  /\ UNCHANGED <<upPage, upNextId, upStack>>
  /\ UNCHANGED <<upCaller, upExisting, upMergeCalls, upToDelete, upDelIdx, upLast>>
  /\ UNCHANGED <<retryVars, crawlVars, syncVars, linkMap, blockVars, renewVars, readVars,
                 fetchVars, parallelVars>>

(* Lines 375-386: appendBlocksInChunks(response.results[index].id,           *)
(* children[index]) for the next index *)
AppendChildren ==
  /\ upPc = "append"
  /\ TopFrame.pc = "children"
  /\ TopFrame.followups # <<>>
  /\ LET next == Head(TopFrame.followups)
     IN upStack' = Append([upStack EXCEPT ![Len(upStack)].followups = Tail(@)],
                          AppendFrame(next.target, next.blocks, 0))
  /\ UNCHANGED <<upCaller, upExisting, upPage, upNextId, upPc, upMergeCalls, upToDelete,
                 upDelIdx, upRequests, upLast>>
  /\ UNCHANGED <<retryVars, crawlVars, syncVars, linkMap, blockVars, renewVars, readVars,
                 fetchVars, parallelVars>>

RECURSIVE Unwind(_)
(* The frames left when the top frame has gone through all of its blocks:    *)
(* a call without blocks makes no request and returns at once *)
Unwind(frames) ==
  IF frames = <<>> THEN frames
  ELSE LET f == frames[Len(frames)]
       IN IF f.pc = "chunk" /\ f.i >= Len(f.blocks)
            THEN Unwind(SubSeq(frames, 1, Len(frames) - 1))
            ELSE frames

(* Line 351: i += NOTION_BLOCK_LIMIT; the loop goes on, or the call returns  *)
NextChunk ==
  /\ upPc = "append"
  /\ TopFrame.pc = "children"
  /\ TopFrame.followups = <<>>
  /\ LET stepped == [upStack EXCEPT ![Len(upStack)].i = @ + NOTION_BLOCK_LIMIT,
                                    ![Len(upStack)].pc = "chunk"]
         left == Unwind(stepped)
     IN /\ upStack' = left
        /\ upPc' = IF left # <<>> THEN "append"
                   ELSE IF upCaller = "direct" THEN "returned" ELSE "merge"
  /\ UNCHANGED <<upCaller, upExisting, upPage, upNextId, upMergeCalls, upToDelete,
                 upDelIdx, upRequests, upLast>>
  /\ UNCHANGED <<retryVars, crawlVars, syncVars, linkMap, blockVars, renewVars, readVars,
                 fetchVars, parallelVars>>

(* mergeBlocks returns (line 619) *)
MergeReturn ==
  /\ upPc = "merge"
  /\ upPc' = "deleting"
  /\ upDelIdx' = 1
  /\ upLast' = NoCall
  /\ UNCHANGED <<upCaller, upExisting, upPage, upNextId, upMergeCalls, upToDelete,
                 upStack, upRequests>>
  /\ UNCHANGED <<retryVars, crawlVars, syncVars, linkMap, blockVars, renewVars, readVars,
                 fetchVars, parallelVars>>

(* Lines 620-626: blocks.delete for the next id of the set *)
DeleteBlock(ok) ==
  /\ upPc = "deleting"
  /\ upDelIdx <= Len(upToDelete)
  /\ LET id == upToDelete[upDelIdx]
     IN /\ upRequests' = Append(upRequests,
             [op |-> "delete", target |-> id, after |-> 0, tags |-> <<>>, depth |-> 0,
              level |-> 0, call |-> 0, follow |-> {}])
        /\ IF ok
             THEN /\ upPage' = SelectSeq(upPage, LAMBDA b : b.id # id)
                  /\ upDelIdx' = upDelIdx + 1
                  /\ UNCHANGED upPc
             ELSE /\ upPc' = "failed"
                  /\ UNCHANGED <<upPage, upDelIdx>>
  /\ UNCHANGED <<upCaller, upExisting, upNextId, upMergeCalls, upToDelete, upStack, upLast>>
  /\ UNCHANGED <<retryVars, crawlVars, syncVars, linkMap, blockVars, renewVars, readVars,
                 fetchVars, parallelVars>>

(* Line 627 *)
UpdateReturn ==
  /\ upPc = "deleting"
  /\ upDelIdx > Len(upToDelete)
  /\ upPc' = "done"
  /\ UNCHANGED <<upCaller, upExisting, upPage, upNextId, upMergeCalls, upToDelete,
                 upDelIdx, upStack, upRequests, upLast>>
  /\ UNCHANGED <<retryVars, crawlVars, syncVars, linkMap, blockVars, renewVars, readVars,
                 fetchVars, parallelVars>>

Anchors == {0} \cup Range(upExisting)

AppendNext ==
  \/ \E blocks \in NestedLists(1), afterId \in Anchors : CallAppend(blocks, afterId)
  \/ \E ok \in BOOLEAN : AppendChunk(ok)
  \/ AppendChildren
  \/ NextChunk

UpdateNext ==
  \/ \E blocks \in MergeLists(upMergeCalls + 1), after \in Anchors : MergeAppend(blocks, after)
  \/ \E id \in Range(upExisting) : MergeDelete(id)
  \/ MergeReturn
  \/ \E ok \in BOOLEAN : AppendChunk(ok)
  \/ AppendChildren
  \/ NextChunk
  \/ \E ok \in BOOLEAN : DeleteBlock(ok)
  \/ UpdateReturn

UpdateIdle ==
  /\ upCaller = "none"
  /\ upExisting = <<>>
  /\ upPage = <<>>
  /\ upNextId = 0
  /\ upPc = "idle"
  /\ upMergeCalls = 0
  /\ upToDelete = <<>>
  /\ upDelIdx = 0
  /\ upStack = <<>>
  /\ upRequests = <<>>
  /\ upLast = NoCall

(* processInParallel: the loop runs until it awaits Promise.race or          *)
(* Promise.all; a worker ends, and a pacing sleep ends, in a task of its own *)
Undefined == "undefined"
(* An item is undefined, or its worker returns a value, returns undefined,   *)
(* or throws *)
ItemKinds == {"value", "void", "error", Undefined}
ItemLists == UNION {[1..n -> ItemKinds] : n \in 1..MaxItems}
ResultOf(i) == IF parItems[i] = "value" THEN <<"r", i>> ELSE Undefined
WorkersInFlight == {i \in 1..Len(parItems) : parState[i] = "working"}

ParallelInit ==
  /\ parItems \in ItemLists
  /\ parLimit \in 1..MaxItems
  /\ parDelay \in {0, DEFAULT_REQUEST_DELAY}
  /\ parI = 1
  /\ parState = [i \in 1..Len(parItems) |-> "none"]
  /\ executing = {}
  /\ parResults = [i \in 1..Len(parItems) |-> Undefined]
  /\ parPc = "loop"
  /\ parReturned = <<>>

(* Line 121: results.filter(r => r !== undefined) *)
Filter(res) == SelectSeq(res, LAMBDA r : r # Undefined)

(* Line 101: the item is undefined *)
SkipItem ==
  /\ parPc = "loop"
  /\ parI <= Len(parItems)
  /\ parItems[parI] = Undefined
  /\ parI' = parI + 1
  /\ UNCHANGED <<parItems, parLimit, parDelay, parState, executing, parResults, parPc,
                 parReturned>>
  /\ UNCHANGED <<retryVars, crawlVars, syncVars, linkMap, blockVars, renewVars, readVars,
                 fetchVars, updateVars>>

(* Line 115 *)
LimitReached(size) == size >= parLimit

(* Lines 100-117: the promise of the item starts, sleeping first (line 105)  *)
(* or calling the worker at once, and is added to executing; the loop goes   *)
(* on or awaits Promise.race(executing) *)
StartItem ==
  /\ parPc = "loop"
  /\ parI <= Len(parItems)
  /\ parItems[parI] # Undefined
  /\ parState' = [parState EXCEPT ![parI] =
                    IF parDelay > 0 /\ Cardinality(executing) > 0 THEN "sleeping" ELSE "working"]
  /\ executing' = executing \cup {parI}
  /\ parPc' = IF LimitReached(Cardinality(executing')) THEN "race" ELSE "loop"
  /\ parI' = parI + 1
  /\ UNCHANGED <<parItems, parLimit, parDelay, parResults, parReturned>>
  /\ UNCHANGED <<retryVars, crawlVars, syncVars, linkMap, blockVars, renewVars, readVars,
                 fetchVars, updateVars>>

(* Lines 120-121: the loop has ended; Promise.all of no promise resolves *)
AwaitAll ==
  /\ parPc = "loop"
  /\ parI > Len(parItems)
  /\ IF executing = {}
       THEN parPc' = "resolved" /\ parReturned' = Filter(parResults)
       ELSE parPc' = "all" /\ UNCHANGED parReturned
  /\ UNCHANGED <<parItems, parLimit, parDelay, parI, parState, executing, parResults>>
  /\ UNCHANGED <<retryVars, crawlVars, syncVars, linkMap, blockVars, renewVars, readVars,
                 fetchVars, updateVars>>

(* Lines 106-108: the sleep ends and the worker is called *)
SleepEnds(i) ==
  /\ parPc # "loop"
  /\ parState[i] = "sleeping"
  /\ parState' = [parState EXCEPT ![i] = "working"]
  /\ UNCHANGED <<parItems, parLimit, parDelay, parI, executing, parResults, parPc,
                 parReturned>>
  /\ UNCHANGED <<retryVars, crawlVars, syncVars, linkMap, blockVars, renewVars, readVars,
                 fetchVars, updateVars>>

(* Lines 108-109 and 113: the worker returns; its result is stored, the      *)
(* promise leaves executing, a pending Promise.race resolves and the loop    *)
(* goes on, a pending Promise.all resolves when it was the last *)
WorkerReturns(i) ==
  /\ parPc # "loop"
  /\ parState[i] = "working"
  /\ parItems[i] # "error"
  /\ parState' = [parState EXCEPT ![i] = "done"]
  /\ parResults' = [parResults EXCEPT ![i] = ResultOf(i)]
  /\ executing' = executing \ {i}
  /\ parPc' = IF parPc = "race" THEN "loop"
              ELSE IF parPc = "all" /\ executing' = {} THEN "resolved"
              ELSE parPc
  /\ parReturned' = IF parPc' = "resolved" THEN Filter(parResults') ELSE parReturned
  /\ UNCHANGED <<parItems, parLimit, parDelay, parI>>
  /\ UNCHANGED <<retryVars, crawlVars, syncVars, linkMap, blockVars, renewVars, readVars,
                 fetchVars, updateVars>>

(* Lines 108, 113, 116 and 120: the worker throws; the promise is rejected   *)
(* and leaves executing, and the pending Promise.race or Promise.all rejects *)
WorkerThrows(i) ==
  /\ parPc # "loop"
  /\ parState[i] = "working"
  /\ parItems[i] = "error"
  /\ parState' = [parState EXCEPT ![i] = "failed"]
  /\ executing' = executing \ {i}
  /\ parPc' = IF parPc \in {"race", "all"} THEN "rejected" ELSE parPc
  /\ UNCHANGED <<parItems, parLimit, parDelay, parI, parResults, parReturned>>
  /\ UNCHANGED <<retryVars, crawlVars, syncVars, linkMap, blockVars, renewVars, readVars,
                 fetchVars, updateVars>>

ParallelNext ==
  \/ SkipItem
  \/ StartItem
  \/ AwaitAll
  \/ \E i \in 1..Len(parItems) : SleepEnds(i)
  \/ \E i \in 1..Len(parItems) : WorkerReturns(i)
  \/ \E i \in 1..Len(parItems) : WorkerThrows(i)

ParallelIdle ==
  /\ parItems = <<>>
  /\ parLimit = 0
  /\ parDelay = 0
  /\ parI = 0
  /\ parState = <<>>
  /\ executing = {}
  /\ parResults = <<>>
  /\ parPc = "idle"
  /\ parReturned = <<>>

MoreIdle == FetchIdle /\ UpdateIdle /\ ParallelIdle

AuxIdle == BlocksIdle /\ RenewIdle /\ ReadIdle /\ MoreIdle

---------------------------------------------------------------------------
RetryIdle ==
  /\ maxAttempts = 0
  /\ initialDelay = 0
  /\ attempt = 0
  /\ lastError = NoError
  /\ retryPc = "idle"
  /\ retryOutcome = NoError
  /\ fnCalls = <<>>
  /\ sleeps = <<>>

CrawlIdle ==
  /\ parentOf = <<>>
  /\ titleOf = <<>>
  /\ listSize = 0
  /\ maxDepth = 0
  /\ parallelLimit = 0
  /\ requestDelay = 0
  /\ processedIds = {}
  /\ pendingTasks = <<>>
  /\ task = <<>>
  /\ waiters = <<>>
  /\ microtasks = <<>>
  /\ running = 0
  /\ mainPc = "idle"
  /\ mainAwait = {}
  /\ retrieved = {}
  /\ fetches = <<>>
  /\ titleErrors = {}

SyncIdle ==
  /\ fs = {}
  /\ fileContent = <<>>
  /\ useTracker = FALSE
  /\ durable = <<>>
  /\ trackerState = <<>>
  /\ trackerPending = {}
  /\ dir = <<>>
  /\ rootPageId = <<>>
  /\ deleteNonExistentFiles = FALSE
  /\ remotePages = <<>>
  /\ nextId = 0
  /\ syncPc = "idle"
  /\ stack = <<>>
  /\ pages = <<>>
  /\ folderPageIds = {}
  /\ fileIdx = 0
  /\ sortedEntries = <<>>
  /\ archiveIdx = 0
  /\ archivedPages = {}
  /\ calls = <<>>
  /\ getContentCalls = <<>>
  /\ resolved = <<>>
  /\ saved = <<>>
  /\ run = 0
  /\ localChange = FALSE
  /\ failedAt = 0

(* retryWithBackoff alone *)
InitRetry == RetryInit /\ CrawlIdle /\ SyncIdle /\ linkMap = <<>> /\ AuxIdle
SpecRetry == InitRetry /\ [][RetryNext]_vars

CrawlIdleBut ==
  /\ parentOf = <<>>
  /\ titleOf = <<>>
  /\ listSize = 0
  /\ parallelLimit = 0
  /\ requestDelay = 0
  /\ processedIds = {}
  /\ pendingTasks = <<>>
  /\ task = <<>>
  /\ waiters = <<>>
  /\ microtasks = <<>>
  /\ running = 0
  /\ mainPc = "idle"
  /\ mainAwait = {}
  /\ retrieved = {}
  /\ fetches = <<>>
  /\ titleErrors = {}

(* The command run once or twice: the index as collectCurrentFiles leaves it *)
(* when every page down to maxDepth is registered, readMarkdownFiles and     *)
(* syncToNotion *)
InitSync ==
  /\ maxDepth \in {0, Infinity}
  /\ SyncInit /\ RetryIdle /\ CrawlIdleBut /\ AuxIdle
SpecSync == InitSync /\ [][SyncNext]_vars

(* The same command against a root page whose title is a local name *)
InitRootNamed ==
  /\ maxDepth \in {0, Infinity}
  /\ SyncInitRootNamed /\ RetryIdle /\ CrawlIdleBut /\ AuxIdle
SpecRootNamed == InitRootNamed /\ [][SyncNext]_vars

(* main with --renew up to the collection of the existing pages *)
InitRenew ==
  RenewInit /\ RetryIdle /\ CrawlIdle /\ SyncIdle /\ linkMap = <<>> /\ BlocksIdle
  /\ ReadIdle /\ MoreIdle
SpecRenew == InitRenew /\ [][RenewNext]_vars

(* getAllBlockPages alone *)
InitBlocks ==
  BlocksInit /\ RetryIdle /\ CrawlIdle /\ SyncIdle /\ linkMap = <<>> /\ RenewIdle
  /\ ReadIdle /\ MoreIdle
SpecBlocks == InitBlocks /\ [][BlocksNext]_vars

(* readMarkdownFiles and notion-ignore alone *)
InitRead ==
  ReadInit /\ RetryIdle /\ CrawlIdle /\ SyncIdle /\ linkMap = <<>> /\ BlocksIdle
  /\ RenewIdle /\ MoreIdle
SpecRead == InitRead /\ [][ReadNext]_vars

(* appendBlocksInChunks alone *)
InitAppend ==
  AppendInit /\ RetryIdle /\ CrawlIdle /\ SyncIdle /\ linkMap = <<>> /\ BlocksIdle
  /\ RenewIdle /\ ReadIdle /\ FetchIdle /\ ParallelIdle
SpecAppend == InitAppend /\ [][AppendNext]_vars

(* updateBlocks from the call of mergeBlocks on *)
InitUpdate ==
  UpdateInit /\ RetryIdle /\ CrawlIdle /\ SyncIdle /\ linkMap = <<>> /\ BlocksIdle
  /\ RenewIdle /\ ReadIdle /\ FetchIdle /\ ParallelIdle
SpecUpdate == InitUpdate /\ [][UpdateNext]_vars

(* processInParallel alone *)
InitParallel ==
  ParallelInit /\ RetryIdle /\ CrawlIdle /\ SyncIdle /\ linkMap = <<>> /\ BlocksIdle
  /\ RenewIdle /\ ReadIdle /\ FetchIdle /\ UpdateIdle
SpecParallel == InitParallel /\ [][ParallelNext]_vars

(* The block fetch of updateBlocks alone *)
InitFetch ==
  FetchInit /\ RetryIdle /\ CrawlIdle /\ SyncIdle /\ linkMap = <<>> /\ BlocksIdle
  /\ RenewIdle /\ ReadIdle /\ UpdateIdle /\ ParallelIdle
SpecFetch == InitFetch /\ [][FetchNext]_vars

(* collectCurrentFiles on a remote store with equal titles and long lists *)
InitStore == StoreParams /\ CrawlStart /\ RetryIdle /\ SyncIdle /\ AuxIdle
SpecStore == InitStore /\ [][CrawlNext]_vars

(* collectCurrentFiles alone *)
InitCrawl == CrawlInit /\ RetryIdle /\ SyncIdle /\ AuxIdle
SpecCrawl == InitCrawl /\ [][CrawlNext]_vars

---------------------------------------------------------------------------
(* Claims *)

RetryTransient(r) == r.kind = "error" /\ r.hasStatus /\ r.status \in {429, 503}
AllCallsTransient == \A i \in 1..Len(fnCalls) : RetryTransient(fnCalls[i])

\* C8: for every maxAttempts >= 1, when fn fails on every call with a transient
\* signal (status 429 or 503), retryWithBackoff invokes fn exactly maxAttempts
\* times, sleeps initialDelay * 2^(k-1) after the k-th failed attempt for
\* k = 1..maxAttempts-1 (no sleep after the last attempt) and then rejects with
\* fn's error.
C8_RetryCeiling ==
  (maxAttempts >= 1 /\ AllCallsTransient) =>
    /\ Len(fnCalls) <= maxAttempts
    /\ retryPc # "returned"
    /\ Len(sleeps) <= maxAttempts - 1
    /\ \A k \in 1..Len(sleeps) : sleeps[k] = initialDelay * Pow2(k - 1)
    /\ retryPc = "sleeping" => Len(sleeps) = Len(fnCalls)
    /\ retryPc = "loop" => Len(sleeps) = Len(fnCalls) /\ attempt = Len(fnCalls) + 1
    /\ retryPc = "thrown" =>
         /\ Len(fnCalls) = maxAttempts
         /\ Len(sleeps) = maxAttempts - 1
         /\ retryOutcome = fnCalls[maxAttempts]

C8_Witness ==
  /\ maxAttempts = MAX_RETRY_ATTEMPTS
  /\ AllCallsTransient
  /\ retryPc = "thrown"
  /\ Len(fnCalls) = MAX_RETRY_ATTEMPTS
  /\ sleeps = <<initialDelay, 2 * initialDelay>>

\* C9: a failure that is not a transient signal (a status other than 429 and
\* 503, or no status) is rethrown after that single invocation, with no sleep
\* and no further attempt; and as soon as an invocation of fn succeeds its
\* value is returned and fn is not invoked again.
C9_RethrowOrReturn ==
  \A i \in 1..Len(fnCalls) :
    /\ (fnCalls[i].kind = "error" /\ ~RetryTransient(fnCalls[i])) =>
         /\ i = Len(fnCalls)
         /\ retryPc = "thrown"
         /\ retryOutcome = fnCalls[i]
         /\ Len(sleeps) = i - 1
    /\ fnCalls[i].kind = "value" =>
         /\ i = Len(fnCalls)
         /\ retryPc = "returned"
         /\ retryOutcome = fnCalls[i]
         /\ Len(sleeps) = i - 1

C9_Witness ==
  /\ maxAttempts = MAX_RETRY_ATTEMPTS
  /\ Len(fnCalls) = 2
  /\ RetryTransient(fnCalls[1])
  /\ fnCalls[2] = FnError(TRUE, 500)
  /\ retryPc = "thrown"
  /\ Len(sleeps) = 1

(* ---- collectCurrentFiles ---- *)
InFlight(p) == task[p] # NoTask /\ ~Settled(task[p])
Registered(p) == \E i \in 1..Len(linkMap) : linkMap[i].value.id = ApiId(p)

\* C1: when collectCurrentFiles has returned, every crawl task it started has
\* completed and the returned PageIndex holds an entry for every page reachable
\* from the root within maxDepth (so no task adds an entry after the return).
C1_ReturnsAfterAllTasks ==
  mainPc = "returned" =>
    /\ \A p \in Pages : ~InFlight(p)
    /\ \A p \in Pages : TreeDepth(p) <= maxDepth => Registered(p)

\* C10: for every page tree and every maxDepth, no page deeper than maxDepth
\* (root = depth 0) is ever retrieved or registered in the PageIndex; in a tree
\* of depth 5 crawled with maxDepth = 2 the registered pages are at depth <= 2.
C10_DepthCeiling ==
  /\ \A p \in retrieved : TreeDepth(p) <= maxDepth
  /\ \A i \in 1..Len(linkMap) :
       \E p \in Pages : linkMap[i].value.id = ApiId(p) /\ TreeDepth(p) <= maxDepth
  /\ \A p \in Pages : task[p] # NoTask => task[p].depth = TreeDepth(p)

C10_Witness ==
  /\ \E p \in Pages : TreeDepth(p) = 5
  /\ maxDepth = 2
  /\ mainPc = "returned"
  /\ \A p \in Pages : ~InFlight(p)
  /\ {p \in Pages : Registered(p)} = {p \in Pages : TreeDepth(p) <= 2}
  /\ \E p \in Pages : TreeDepth(p) = 3 /\ task[p] # NoTask

(* ---- syncToNotion ---- *)
CallsOf(ops) == SelectSeq(calls, LAMBDA c : c.op \in ops)
ItemKey(path) == Dot \o Slash \o JoinWith(path, Slash)
ItemName(path) == path[Len(path)]
FoldersOf == {SubSeq(f, 1, Len(f) - 1) : f \in {g \in fs : Len(g) > 1}}
ContainingPage(path) ==
  IF Len(path) = 1 THEN {rootPageId}
  ELSE {resolved[i].pageId :
          i \in {j \in 1..Len(resolved) :
                   resolved[j].kind = "folder"
                   /\ resolved[j].item = SubSeq(path, 1, Len(path) - 1)}}
CreateFailed ==
  syncPc = "failed" /\ calls # <<>> /\ calls[Len(calls)].op = "create"
WalkFinished == syncPc \in {"files", "append", "delete", "commit", "archive", "done"}
Resolutions(kind, path) ==
  {i \in 1..Len(resolved) : resolved[i].kind = kind /\ resolved[i].item = path}

\* C3: every local file and every non-root folder is mapped to exactly one
\* remote page: the page the PageIndex holds under parentPath + "/" + name when
\* the key is present (no create call), otherwise a page created by exactly one
\* create call whose parent is the containing folder's page and which is then
\* registered under that key; no page is created for the root folder, whose
\* page is rootPageId.
C3_OnePagePerItem ==
  /\ \A i \in 1..Len(resolved) :
       LET r == resolved[i]
       IN /\ r.key = ItemKey(r.item)
          /\ ContainingPage(r.item) = {r.parentPage}
          /\ Cardinality(Resolutions(r.kind, r.item)) = 1
          /\ r.present => ~r.created /\ r.indexed = {r.pageId}
          /\ ~r.present =>
               /\ r.created
               /\ \E j \in 1..Len(calls) :
                    calls[j] = Call("create", r.parentPage, ItemName(r.item))
               /\ MapHas(linkMap, r.key)
               /\ MapGet(linkMap, r.key).id = r.pageId
  /\ Len(CallsOf({"create"})) =
       Cardinality({i \in 1..Len(resolved) : resolved[i].created})
         + (IF CreateFailed THEN 1 ELSE 0)
  /\ \A j \in 1..Len(calls) : calls[j].op = "create" => calls[j].title # Dot
  /\ \A i \in 1..Len(resolved) : resolved[i].item # <<>>
  /\ syncPc \notin {"read", "ready", "idle"} => rootPageId \in folderPageIds
  /\ WalkFinished =>
       /\ \A f \in fs : Cardinality(Resolutions("file", f)) = 1
       /\ \A d \in FoldersOf : Cardinality(Resolutions("folder", d)) = 1

C3_Witness ==
  /\ syncPc = "done"
  /\ \E i \in 1..Len(resolved) :
       resolved[i].kind = "folder" /\ resolved[i].present /\ ~resolved[i].created
  /\ \E i \in 1..Len(resolved) :
       /\ resolved[i].kind = "file" /\ resolved[i].created
       /\ Len(resolved[i].item) = 2
       /\ resolved[i].parentPage # rootPageId
  /\ Len(CallsOf({"create"})) = 1

PageCalls(pageId, ops) ==
  {j \in 1..Len(calls) : calls[j].op \in ops /\ calls[j].target = pageId}

\* C4: for a file whose hasChanged flag is false, getContent is never called
\* and no list, append or delete call is issued for the file's page; a file
\* read without a SyncStateManager is always changed and is synced.
C4_UnchangedUntouched ==
  /\ \A i \in 1..Len(pages) :
       pages[i].file.hasChanged = FALSE =>
         /\ \A j \in 1..Len(getContentCalls) : getContentCalls[j] # pages[i].file.path
         /\ PageCalls(pages[i].pageId, {"list", "append", "delete"}) = {}
  /\ ~useTracker =>
       \A i \in 1..Len(pages) :
         /\ pages[i].file.hasChanged = TRUE
         /\ (i < fileIdx \/ (syncPc \in {"append", "delete", "commit"} /\ i = fileIdx)) =>
              /\ \E j \in 1..Len(getContentCalls) : getContentCalls[j] = pages[i].file.path
              /\ PageCalls(pages[i].pageId, {"list"}) # {}

C4_Witness ==
  /\ syncPc = "done"
  /\ run = 1
  /\ Len(pages) = 2
  /\ pages[1].file.hasChanged = FALSE
  /\ pages[2].file.hasChanged = TRUE
  /\ getContentCalls = <<pages[2].file.path>>
  /\ PageCalls(pages[2].pageId, {"append"}) # {}

\* C2: on a second run in succession (index rebuilt, Change Tracker in use, no
\* local change since the first run, deleteOrphans false, first run completed
\* successfully) no append call and no delete call is made.
C2_SecondRunIdle ==
  (run = 2 /\ useTracker /\ ~localChange /\ ~deleteNonExistentFiles) =>
    Len(CallsOf({"append", "delete"})) = 0

C2_Witness ==
  /\ run = 2
  /\ useTracker
  /\ ~localChange
  /\ ~deleteNonExistentFiles
  /\ syncPc = "done"
  /\ Len(pages) = 2
  /\ \A i \in 1..Len(pages) : Existing(pages[i].pageId) = "v1"
  /\ calls = <<>>

\* C5: when the sync of a file has been completed, the file's fingerprint is
\* durable before the next file's sync starts (the path given to the per-file
\* commit is the path under which the pending fingerprint was recorded), so
\* that in a run that aborts at the k-th file the fingerprints of the files
\* synced before it are durable.
C5_CommittedPerFile ==
  useTracker =>
    /\ \A i \in 1..Len(saved) : \E f \in fs : saved[i] = PathFromRoot(f)
    /\ \A i \in 1..Len(pages) :
         (i < fileIdx /\ syncPc \in {"files", "append", "delete", "commit", "failed"}
            /\ pages[i].file.hasChanged) =>
           /\ PathFromRoot(pages[i].file.path) \in DOMAIN durable
           /\ durable[PathFromRoot(pages[i].file.path)] =
                Fingerprint(fileContent[pages[i].file.path])

IsArchive(c) == c.op = "archive"
ArchiveCalls == SelectSeq(calls, IsArchive)
TouchedIds == {resolved[i].pageId : i \in 1..Len(resolved)} \cup {rootPageId}
IndexIds == {linkMap[i].value.id : i \in 1..Len(linkMap)}

\* C6: an archive call is made only when deleteOrphans is true, only after the
\* content sync of every file has finished, and only for a PageIndex entry
\* whose page id is neither the root page id (dashes ignored) nor the id of a
\* page created or reused in this run; with deleteOrphans false no archive call
\* is made.
C6_ArchiveOnlyOrphans ==
  /\ ~deleteNonExistentFiles => Len(ArchiveCalls) = 0
  /\ \A j \in 1..Len(calls) :
       calls[j].op = "archive" =>
         /\ deleteNonExistentFiles
         /\ fileIdx > Len(pages)
         /\ syncPc \in {"archive", "done", "failed"}
         /\ \A k \in 1..Len(calls) : k > j => calls[k].op = "archive"
         /\ calls[j].target \in IndexIds
         /\ StripDashes(calls[j].target) # StripDashes(rootPageId)
         /\ calls[j].target \notin TouchedIds

C6_Witness ==
  /\ syncPc = "done"
  /\ deleteNonExistentFiles
  /\ rootPageId # RootApiId
  /\ RootApiId \in IndexIds
  /\ Len(ArchiveCalls) = 1
  /\ \E i \in 1..Len(resolved) : ~resolved[i].created
  /\ Len(CallsOf({"append"})) >= 1

ProperPathPrefix(k1, k2) ==
  /\ Len(k1) < Len(k2)
  /\ SubSeq(k2, 1, Len(k1)) = k1
  /\ k2[Len(k1) + 1] = "/"
OrphanKeys ==
  {linkMap[i].key :
     i \in {j \in 1..Len(linkMap) :
              /\ StripDashes(linkMap[j].value.id) # StripDashes(rootPageId)
              /\ linkMap[j].value.id \notin TouchedIds}}
DocsKey == Dot \o Slash \o DOCS

\* C7: the archival pass goes through the candidates in ascending key length;
\* a candidate whose key has a proper path prefix archived earlier in the run
\* gets no archive call; no page id gets more than one archive call; and for
\* the orphan keys ./docs, ./docs/a, ./docs/b exactly one archive call is made,
\* for ./docs.
C7_ArchiveTopmostOnce ==
  /\ \A i, j \in 1..Len(sortedEntries) :
       i < j => Len(sortedEntries[i].key) <= Len(sortedEntries[j].key)
  /\ \A i, j \in 1..Len(ArchiveCalls) :
       i < j =>
         /\ Len(ArchiveCalls[i].title) <= Len(ArchiveCalls[j].title)
         /\ ~ProperPathPrefix(ArchiveCalls[i].title, ArchiveCalls[j].title)
         /\ ArchiveCalls[i].target # ArchiveCalls[j].target
  /\ \A k \in archivedPages : \E i \in 1..Len(ArchiveCalls) : ArchiveCalls[i].title = k
  /\ (syncPc = "done" /\ deleteNonExistentFiles
        /\ OrphanKeys = {DocsKey, DocsKey \o Slash \o A, DocsKey \o Slash \o B}) =>
       /\ Len(ArchiveCalls) = 1
       /\ ArchiveCalls[1].title = DocsKey

C7_Witness ==
  /\ syncPc = "done"
  /\ deleteNonExistentFiles
  /\ OrphanKeys = {DocsKey, DocsKey \o Slash \o A, DocsKey \o Slash \o B}
  /\ Len(ArchiveCalls) = 1
  /\ ArchiveCalls[1].title = DocsKey
  /\ archiveIdx = Len(sortedEntries) + 1
  /\ Len(sortedEntries) >= 4

C12_FailureRejects ==
  (\E p \in Pages : task[p] # NoTask /\ task[p].pc = "rejected") => mainPc # "returned"

\* C13: when collectCurrentFiles rejects because a page failed, every crawl
\* task started before that moment has settled, the tasks spawned after the
\* first failure included.
C13_RejectsAfterAllSettled ==
  mainPc = "rejected" => \A p \in Pages : ~InFlight(p)

\* C14: a failed create call or a failed call of a file's content sync
\* rejects the run at that point: nothing is called after it, so no later file
\* of the work list gets an append or delete call and no archive call is made;
\* a failed archive call rejects the run and no further archive call is made.
C14_FailureStopsRun ==
  /\ syncPc = "failed" <=> failedAt # 0
  /\ failedAt # 0 =>
       /\ failedAt = Len(calls)
       /\ calls[failedAt].op = "create" =>
            Len(CallsOf({"list", "append", "delete", "archive"})) = 0
       /\ calls[failedAt].op \in {"list", "append", "delete"} =>
            /\ calls[failedAt].target = pages[fileIdx].pageId
            /\ \A i \in (fileIdx + 1)..Len(pages) :
                 PageCalls(pages[i].pageId, {"list", "append", "delete"}) = {}
            /\ Len(ArchiveCalls) = 0
       /\ calls[failedAt].op = "archive" => calls[failedAt].title \notin archivedPages

C14_Witness ==
  /\ failedAt # 0
  /\ calls[failedAt].op = "append"
  /\ fileIdx = 1
  /\ Len(pages) = 2
  /\ pages[2].file.hasChanged
  /\ deleteNonExistentFiles
  /\ OrphanKeys # {}

RECURSIVE IsBelow(_, _)
IsBelow(q, p) == parentOf[q] # 0 /\ (parentOf[q] = p \/ IsBelow(parentOf[q], p))

Quiescent ==
  /\ running = 0
  /\ microtasks = <<>>
  /\ \A p \in Pages : task[p].pc \in {"none", "racing", "resolved", "rejected"}

\* C19: when every remote call succeeds, collectCurrentFiles is never left
\* with nothing to run while a task still awaits a free slot: the tasks a
\* blocked task waits on are not all blocked themselves, so the crawl ends.
C19_NoSlotDeadlock ==
  (\A p \in Pages : task[p].pc # "rejected") =>
     ~(Quiescent /\ \E p \in Pages : task[p].pc = "racing")

(* The remote calls of the index build that were issued and not yet answered: *)
(* a task issues pages.retrieve and blocks.children.list together (lines     *)
(* 216-225) and goes on when both have answered *)
CallsInFlight == 2 * Cardinality({p \in Pages : task[p].pc = "fetching"})

\* C27: during the index build the number of remote calls in flight at the
\* same time never exceeds parallelLimit.
C27_CallsWithinLimit == CallsInFlight <= parallelLimit

\* C28: no key of the PageIndex is written twice during a run: the index
\* build never sets a key that is present already, be it the root's own entry
\* against a child of the root with the root's title, or two sibling pages
\* with one title.
C28_KeysWrittenOnce ==
  [][\A i \in 1..Len(linkMap) : linkMap'[i] = linkMap[i]]_vars

\* C30: every sub-page of a page the crawl has gone through is come to as
\* well, so that it is registered, also when the page's children are listed
\* over several responses.
C30_NoChildBeyondFirstResponse ==
  \A p \in Pages :
    (task[p] # NoTask /\ task[p].pc = "resolved" /\ fetches[p] = 1) =>
      \A q \in Pages : parentOf[q] = p => task[q] # NoTask

(* ---- getExistingBlocks ---- *)
\* C29: the fetch of a file page's existing blocks goes no deeper than the
\* maxDepth the caller configured: getExistingBlocks is called for no block
\* nested deeper than options.maxDepth.
C29_FetchWithinConfiguredDepth ==
  \A b \in gbCalled : NestingDepth(b) <= gbOption

(* ---- appendBlocksInChunks ---- *)
(* The call of appendBlocksInChunks made last from outside has returned *)
AppendReturned == upLast.call # 0 /\ upPc \in {"returned", "merge"}
PageTags == [k \in 1..Len(upPage) |-> upPage[k].tag]
AppendRequests == {r \in 1..Len(upRequests) : upRequests[r].op = "append"}

\* C21: when appendBlocksInChunks(page, blocks, anchor) has returned, the
\* blocks of `blocks` stand in the remote page in the order of `blocks`,
\* the first of them right after the anchor block, or, without an anchor,
\* they are the end of the page; also when they went out in several chunks.
C21_AppendedInOrderAfterAnchor ==
  AppendReturned =>
    LET n == Len(upLast.tags)
        pos == IF upLast.afterId = 0 THEN Len(upPage) - n
               ELSE PositionOf(upPage, upLast.afterId)
    IN /\ pos + n <= Len(upPage)
       /\ SubSeq(PageTags, pos + 1, pos + n) = upLast.tags

\* C22: no append request carries a tree of blocks more than 3 levels deep.
C22_RequestsAtMostThreeDeep ==
  \A r \in AppendRequests : upRequests[r].depth <= 3

(* The requests of the call made from outside itself, not of its follow-ups *)
ChunkRequests == {r \in AppendRequests : upRequests[r].level = 1}
RECURSIVE ConcatTags(_, _)
ConcatTags(r, last) ==
  IF r > last THEN <<>>
  ELSE (IF r \in ChunkRequests THEN upRequests[r].tags ELSE <<>>) \o ConcatTags(r + 1, last)

DeleteRequests == {r \in 1..Len(upRequests) : upRequests[r].op = "delete"}

\* C24: in updateBlocks no block is deleted before mergeBlocks has returned,
\* so no append request follows a delete request, and no block id gets more
\* than one delete call, however often it was scheduled for deletion.
C24_DeletesAfterMergeOncePerBlock ==
  /\ DeleteRequests # {} => upPc \in {"deleting", "done", "failed"}
  /\ \A r \in DeleteRequests, s \in AppendRequests : s < r
  /\ \A r, s \in DeleteRequests : upRequests[r].target = upRequests[s].target => r = s
C24_Witness ==
  /\ upPc = "done"
  /\ upMergeCalls = 2
  /\ upToDelete = <<upExisting[1]>>
  /\ Cardinality(DeleteRequests) = 1
  /\ Cardinality(AppendRequests) = 1
  /\ \A r \in AppendRequests :
       upRequests[r].tags = <<<<1, 1>>, Original(upExisting[1])>>

RECURSIVE SentFrom(_, _)
(* The top-level blocks the chunks of one call carried, in order *)
SentFrom(r, call) ==
  IF r > Len(upRequests) THEN <<>>
  ELSE (IF r \in ChunkRequests /\ upRequests[r].call = call
          THEN upRequests[r].tags ELSE <<>>) \o SentFrom(r + 1, call)
RequestsOf(call) == {r \in ChunkRequests : upRequests[r].call = call}

\* C25: when the append callback was called without anchor and has returned:
\* on a page with existing blocks whose first block was not yet scheduled
\* for deletion, the new blocks and then a copy of the first existing block
\* were sent, anchored after the first existing block, that block is
\* scheduled for deletion, and in the page the new blocks stand before all
\* original content but the block to be deleted; on a page without blocks
\* the new blocks alone were sent, without anchor, and nothing is scheduled.
C25_HeadInsertPrecedesOriginalContent ==
  (AppendReturned /\ upCaller = "updateBlocks" /\ upLast.after = 0) =>
    IF Len(upExisting) > 0
      THEN ~upLast.scheduled =>
             LET first == upExisting[1]
             IN /\ SentFrom(1, upLast.call) = Append(upLast.tags, Original(first))
                /\ \A r \in RequestsOf(upLast.call) : upRequests[r].after = first
                /\ first \in Range(upToDelete)
                /\ \A i, j \in 1..Len(upPage) :
                     (/\ upPage[i].tag[1] = upLast.call
                      /\ upPage[j].tag[1] = 0
                      /\ upPage[j].id # first) => i < j
      ELSE /\ SentFrom(1, upLast.call) = upLast.tags
           /\ \A r \in RequestsOf(upLast.call) : upRequests[r].after = 0
           /\ upToDelete = <<>>

(* ---- order of the content syncs ---- *)
ContentOps == {"list", "append", "delete"}
ContentCalls == {k \in 1..Len(calls) : calls[k].op \in ContentOps}
ListCalls == {k \in 1..Len(calls) : calls[k].op = "list"}
RECURSIVE TreeOrder(_)
RECURSIVE TreeOrderOfAll(_)
TreeOrderOfAll(folders) ==
  IF folders = <<>> THEN <<>> ELSE TreeOrder(Head(folders)) \o TreeOrderOfAll(Tail(folders))
(* The files of a folder, then those of its subfolders, one subfolder after  *)
(* the other *)
TreeOrder(folder) ==
  [i \in 1..Len(folder.files) |-> folder.files[i].path] \o TreeOrderOfAll(folder.subfolders)
TreeRank(path) ==
  CHOOSE i \in 1..Len(TreeOrder(dir)) : TreeOrder(dir)[i] = path
PageOfFile(path) ==
  pages[CHOOSE i \in 1..Len(pages) : pages[i].file.path = path].pageId

\* C26: no content call (block fetch, append, delete) of a run is made
\* before every folder and file of the local tree has its page, and no page
\* is created after one; the files are synced one at a time in the order
\* of the local tree, a folder's files before its subfolders: every append
\* and delete belongs to the file fetched last.
C26_ContentAfterPagesInTreeOrder ==
  /\ ContentCalls # {} =>
       /\ stack = <<>>
       /\ {pages[i].file.path : i \in 1..Len(pages)} = fs
  /\ \A i \in ContentCalls, j \in 1..Len(calls) : calls[j].op = "create" => j < i
  /\ Cardinality(ListCalls) = Len(getContentCalls)
  /\ \A i, j \in 1..Len(getContentCalls) :
       i < j => TreeRank(getContentCalls[i]) < TreeRank(getContentCalls[j])
  /\ \A k \in ContentCalls :
       LET n == Cardinality({l \in ListCalls : l <= k})
       IN n > 0 /\ calls[k].target = PageOfFile(getContentCalls[n])
C26_Witness ==
  /\ syncPc = "done"
  /\ Len(getContentCalls) = 2
  /\ Len(getContentCalls[1]) = 1
  /\ Len(getContentCalls[2]) = 2
  /\ \E k \in 1..Len(calls) : calls[k].op = "create"
  /\ \E k \in ContentCalls, l \in ListCalls : calls[k].op = "delete" /\ k < l

(* ---- the root page ---- *)
\* C31: the root page is never the page of a local file or subfolder: no
\* item is resolved to rootPageId, and no append or delete call is made
\* against it, also when the index holds the root under "./<root title>"
\* and a top-level local file or folder has that name.
C31_RootIsNoItemsPage ==
  /\ \A i \in 1..Len(resolved) : ~SameId(resolved[i].pageId, rootPageId)
  /\ \A i \in 1..Len(pages) : ~SameId(pages[i].pageId, rootPageId)
  /\ \A k \in 1..Len(calls) :
       calls[k].op \in {"append", "delete"} => ~SameId(calls[k].target, rootPageId)

\* C32: within one run no two distinct local items (files or folders) are
\* mapped to the same remote page, also a folder and the file beside it
\* whose name without extension is the folder's name.
C32_DistinctItemsDistinctPages ==
  \A i, j \in 1..Len(resolved) :
    i # j => ~SameId(resolved[i].pageId, resolved[j].pageId)

\* C33: after a successful run, every page created in the run for a local
\* file has had the file's content synced to it in the run, also when the
\* change tracker reported the file unchanged.
C33_CreatedFilePagesSynced ==
  syncPc = "done" =>
    \A i \in 1..Len(resolved) :
      (resolved[i].kind = "file" /\ resolved[i].created) =>
        /\ \E k \in 1..Len(getContentCalls) : getContentCalls[k] = resolved[i].item
        /\ Existing(resolved[i].pageId) = fileContent[resolved[i].item]

(* ---- durability of fingerprints ---- *)
RECURSIVE ChangedIn(_)
(* The files below a folder that readMarkdownFiles found changed *)
ChangedIn(folder) ==
  {folder.files[i].path : i \in {j \in 1..Len(folder.files) : folder.files[j].hasChanged}}
    \cup UNION {ChangedIn(folder.subfolders[i]) : i \in 1..Len(folder.subfolders)}
ChangedAtRead == IF dir = <<>> THEN {} ELSE ChangedIn(dir)
IsDurable(f) ==
  /\ PathFromRoot(f) \in DOMAIN durable
  /\ durable[PathFromRoot(f)] = Fingerprint(fileContent[f])
(* updateBlocks has returned for the file in this run *)
SyncCompleted(f) ==
  \E i \in 1..Len(pages) :
    /\ pages[i].file.path = f
    /\ i < fileIdx \/ (i = fileIdx /\ syncPc = "commit")
    /\ \E k \in 1..Len(getContentCalls) : getContentCalls[k] = f
    /\ Existing(pages[i].pageId) = fileContent[f]

Defined == {i \in 1..Len(parItems) : parItems[i] # Undefined}

\* C35: processInParallel never has more than limit workers in flight, has
\* resolved only when every worker has completed, and has rejected only when
\* no worker is in flight any more.
C35_WithinLimitAndDrained ==
  /\ Cardinality(WorkersInFlight) <= parLimit
  /\ parPc = "resolved" => \A i \in Defined : parState[i] = "done"
  /\ parPc = "rejected" => \A i \in Defined : parState[i] \notin {"sleeping", "working"}

\* C36: processInParallel returns one result per input item, at the item's
\* position, whatever the order the workers completed in and whatever they
\* returned.
C36_ResultPerItemInPlace ==
  parPc = "resolved" =>
    /\ Len(parReturned) = Len(parItems)
    /\ \A i \in Defined : parReturned[i] = ResultOf(i)

(* ---- notion-ignore ---- *)
PatternBody(raw) ==
  LET pattern == normalizePattern(raw)
  IN IF IsNegation(pattern) THEN Tail(pattern) ELSE pattern
PatternMatches(raw, filePath) == minimatch(StripDotSlash(filePath), PatternBody(raw))
Matching(filePath) ==
  {i \in 1..Len(ignorePatterns) : PatternMatches(ignorePatterns[i], filePath)}
Last(S) == CHOOSE i \in S : \A j \in S : j <= i
RawBody(raw) == IF IsNegation(raw) THEN Tail(raw) ELSE raw
IsBelowDirectory(filePath, body) ==
  /\ EndsWith(body, Slash)
  /\ StartsWith(StripDotSlash(filePath), body)
  /\ Len(StripDotSlash(filePath)) > Len(body)
IgnoreFileLines == Split(igContent, "\n")
PatternLineNumbers ==
  SortedSeq({i \in 1..Len(IgnoreFileLines) :
               /\ \E k \in 1..Len(IgnoreFileLines[i]) : ~IsSpace(IgnoreFileLines[i][k])
               /\ LET first == CHOOSE k \in 1..Len(IgnoreFileLines[i]) :
                                 /\ ~IsSpace(IgnoreFileLines[i][k])
                                 /\ \A j \in 1..(k - 1) : IsSpace(IgnoreFileLines[i][j])
                  IN IgnoreFileLines[i][first] # "#"})

\* C17: shouldIgnorePath answers with the polarity of the last pattern, in
\* list order, that matches the path (true for a plain pattern, false for a
\* "!" pattern) and false when no pattern matches; a pattern ending in "/"
\* matches every path below that directory; parseNotionIgnore gives the
\* trimmed, non-empty, non-comment lines in file order, and no pattern when the
\* file cannot be read.
C17_LastMatchingPatternWins ==
  /\ \A call \in ignoreCalls :
       LET matching == Matching(call.path)
       IN /\ call.ignored = (matching # {} /\ ~IsNegation(ignorePatterns[Last(matching)]))
          /\ \A i \in 1..Len(ignorePatterns) :
               IsBelowDirectory(call.path, RawBody(ignorePatterns[i])) => i \in matching
  /\ rdPc # "init" =>
       IF ~igReadable THEN ignorePatterns = <<>>
       ELSE LET numbers == PatternLineNumbers
            IN
            /\ Len(ignorePatterns) = Len(numbers)
            /\ \A k \in 1..Len(ignorePatterns) :
                 /\ ignorePatterns[k] = Trim(IgnoreFileLines[numbers[k]])
                 /\ ignorePatterns[k] # <<>>
                 /\ ~IsSpace(Head(ignorePatterns[k]))
                 /\ ~IsSpace(ignorePatterns[k][Len(ignorePatterns[k])])
                 /\ Head(ignorePatterns[k]) # "#"

\* A plain pattern matches the path and a later "!" pattern matches it too
C17_Witness ==
  /\ Len(IgnoreFileLines) = 3
  /\ \E call \in ignoreCalls :
       /\ ~call.ignored
       /\ Matching(call.path) = {1, 2}
       /\ ~IsNegation(ignorePatterns[1])
       /\ IsNegation(ignorePatterns[2])
       /\ ignorePatterns[2] # IgnoreFileLines[2]

(* ---- readMarkdownFiles ---- *)
RECURSIVE HasMarkdown(_)
HasMarkdown(folder) ==
  \/ Len(folder.files) > 0
  \/ \E i \in 1..Len(folder.subfolders) : HasMarkdown(folder.subfolders[i])
RECURSIVE FoldersIn(_)
FoldersIn(folder) ==
  {folder} \cup UNION {FoldersIn(folder.subfolders[i]) : i \in 1..Len(folder.subfolders)}
TreePaths(tree) ==
  {f.path : f \in {g \in FoldersIn(tree) : g.path # <<>>}}
    \cup UNION {{Append(f.path, f.files[i].fileName \o MD) : i \in 1..Len(f.files)} :
                  f \in FoldersIn(tree)}
IsMarkdownFile(p) == ~IsDirectory(p) /\ EndsWith(p[Len(p)], MD)
Rejected(p) ==
  shouldIgnorePath(NormalizedPath(p), ignorePatterns)
    \/ ~filter(rdFilter, NormalizedPath(p))

\* C18: readMarkdownFiles returns null for a directory without any markdown
\* file; every folder of a returned tree, the root included, holds a markdown
\* file itself or in a folder below it; no entry the .notionignore patterns
\* or the filter reject is in the tree, and nothing below a rejected directory.
C18_TreeHoldsOnlyKeptMarkdown ==
  rdPc = "read" =>
    /\ (\A p \in rdEntries : ~IsMarkdownFile(p)) => rdResult = NullFolder
    /\ rdResult # NullFolder =>
         /\ \A f \in FoldersIn(rdResult) : HasMarkdown(f)
         /\ TreePaths(rdResult) \subseteq rdEntries
         /\ \A p \in TreePaths(rdResult) : \A k \in 1..Len(p) : ~Rejected(SubSeq(p, 1, k))

\* A tree is returned while a directory without markdown and an entry the
\* patterns reject were left out
C18_Witness ==
  /\ rdPc = "read"
  /\ rdResult # NullFolder
  /\ \E p \in rdEntries : IsDirectory(p) /\ ~Rejected(p) /\ p \notin TreePaths(rdResult)
  /\ \E p \in rdEntries : shouldIgnorePath(NormalizedPath(p), ignorePatterns)

(* ---- getAllBlockPages ---- *)
Ids(seq) == [i \in 1..Len(seq) |-> seq[i].id]

\* C20: for a block whose children come in several result pages,
\* getAllBlockPages returns every child block exactly once, in remote order:
\* the list handed to the merge holds no block id twice.
C20_EveryBlockOnce ==
  blPc = "returned" =>
    /\ finalBlocks = SelectSeq(blBlocks, isBlockObjectResponse)
    /\ \A i, j \in 1..Len(finalBlocks) : i # j => finalBlocks[i].id # finalBlocks[j].id

(* ---- --renew ---- *)
\* C16: with --renew every child page of the root page is archived before the
\* existing pages are collected, for any number of children (also when the
\* root's child list spans several result pages), so that the index built
\* afterwards holds no pre-existing child page.
C16_RenewArchivesAll ==
  rnPc = "collected" =>
    /\ \A i \in 1..Len(rnChildren) : IsChildPage(rnChildren[i]) => rnChildren[i].archived
    /\ rnIndex = {}

====
